---- MODULE Spec2Model ----
(***************************************************************************)
(* Verification model of rakeshsurya-cloud/personal_finance_tracker.       *)
(*                                                                         *)
(* Part I   loans.simulate_payoff (src/loans.py), one action per loop      *)
(*          iteration.  Python floats are modelled as exact rationals      *)
(*          [n, d]; the inputs are integers and the APRs are chosen so     *)
(*          that the float computation is followed exactly (APR 0, 600,    *)
(*          1200 give monthly rates 0, 1/2, 1) or, for APR 12,             *)
(*          differs from it only by rounding in the last bit.              *)
(* Part II  app.sync_plaid_transactions (src/app.py) with                  *)
(*          plaid_integration.fetch_transactions, run by two sessions on   *)
(*          one database, and the upload of statement batches.  A ledger   *)
(*          row keeps the fields the properties read: source, external     *)
(*          identifier, (date, description) and amount.                    *)
(* Part III the analytics of src/insights.py and src/app.py over the       *)
(*          prepared frame (predict_spending, detect_anomalies, the budget *)
(*          status and its alerts, forecast_cash_flow) and                 *)
(*          process_transactions.parse_statement.  These are functions of  *)
(*          their arguments: a behaviour draws the arguments in its        *)
(*          initial state and applies the function.  Amounts are integers, *)
(*          means and ratios exact rationals.  Also here: the batch run    *)
(*          process_directory, the column roles infer_column resolves,     *)
(*          mcp_server.categorize_transaction and                          *)
(*          mcp_server.predict_cash_balance.  Where the outcome hinges on  *)
(*          the rounding of a double (the z-score test of                  *)
(*          detect_anomalies) the computation is followed in binary64,     *)
(*          bit by bit.                                                    *)
(* Part IV  the pages of src/app.py: the session state, the login page     *)
(*          with its lockout, the net worth tab and its snapshots, and     *)
(*          what the pages show to an administrator and to a family user.  *)
(***************************************************************************)
EXTENDS Integers, Sequences, FiniteSets, Bags, TLC

VARIABLES
    \* ---- simulate_payoff: arguments and locals (src/loans.py:27-64)
    args,            \* [balance, rate_apr, monthly_payment, extra_payment] of the running call
    monthly_rate,
    total_payment,
    schedule,
    curr_balance,
    month,
    pc,              \* "idle" | "loop" | "done"
    calls,           \* number of calls made so far
    results,         \* history: schedules returned by completed calls, by arguments
    \* ---- the database (src/database.py)
    ledger,          \* committed rows of table transactions, a bag
    item_cursor,     \* committed value of PlaidItem.cursor
    \* ---- sync_plaid_transactions, per session (src/app.py:492-541)
    at,              \* "idle" | "fetch" | "rows" | "done" | "failed"
    cursor,
    latest_cursor,
    has_more,
    added,           \* rows of the fetched page not yet visited by the for loop
    pending,         \* objects given to db.add() and not yet committed
    total_new,
    raised,          \* the exception that ended the run, "none" if it has not raised
    \* ---- upload of statement files (src/app.py:614-624)
    count,           \* value returned by the last save_to_db
    \* ---- history
    ops,             \* pages fetched and batches uploaded so far
    synced,          \* external identifiers delivered by sync runs that returned
    run,             \* per session, about its current run: pages fetched and
                     \* committed, identifiers fetched, rows stored, whether every
                     \* row fetched repeats an identifier of synced
    uploaded,        \* batches given to save_to_db so far
    repeat,          \* whether the last batch uploaded had been uploaded before
    last_fetch,      \* the fetch_transactions call made by the step that led here,
                     \* if it made one: its cursor, the sync response, the
                     \* transactions/get rows and what it returned
    \* ---- calls of the analytics and parsing functions
    fn,              \* the function called, "none" before the call
    inp,             \* its arguments
    ret,             \* the value it returned
    \* ---- more of the database (src/database.py, src/app.py:14)
    loans,           \* rows of table loans, in the order they were added
    snapshots,       \* rows of table net_worth_snapshots, a set of records
    \* ---- the clock
    date_today,      \* datetime.now().date(), a day number
    now,             \* time.time(), in seconds
    \* ---- st.session_state, per session (src/app.py:45-52)
    authenticated,
    role,            \* "None" | "admin" | "family"
    preview_as_family,
    failed_attempts, \* the times of the failed sign-ins kept
    lock_until,      \* << >> for None, <<t>> for the time t
    \* ---- the run of the page script, per session (src/app.py:718-749)
    tab6             \* where the net worth tab is and what it has computed

loanVars == <<args, monthly_rate, total_payment, schedule, curr_balance, month,
              pc, calls, results>>

dbVars == <<ledger, item_cursor>>

sessionVars == <<at, cursor, latest_cursor, has_more, added, pending, total_new, raised>>

historyVars == <<ops, synced, run, uploaded, repeat>>

syncVars == <<dbVars, sessionVars, count, historyVars, last_fetch>>

callVars == <<fn, inp, ret>>

loginVars == <<authenticated, role, preview_as_family, failed_attempts, lock_until, now>>

appVars == <<loans, snapshots, date_today, tab6, loginVars>>

vars == <<loanVars, syncVars, callVars, appVars>>

-----------------------------------------------------------------------------
(* Exact rational arithmetic standing for Python float arithmetic.          *)

Abs(x) == IF x < 0 THEN -x ELSE x

RECURSIVE GCD(_, _)
GCD(a, b) == IF b = 0 THEN a ELSE GCD(b, a % b)

LCM(a, b) == (a \div GCD(a, b)) * b

Frac(n, d) == LET g == GCD(Abs(n), d) IN [n |-> n \div g, d |-> d \div g]

Rat(i) == [n |-> i, d |-> 1]

Zero == Rat(0)

RAdd(x, y) == LET l == LCM(x.d, y.d)
              IN Frac(x.n * (l \div x.d) + y.n * (l \div y.d), l)

RSub(x, y) == LET l == LCM(x.d, y.d)
              IN Frac(x.n * (l \div x.d) - y.n * (l \div y.d), l)

RMul(x, y) == Frac(x.n * y.n, x.d * y.d)

RDivInt(x, k) == Frac(x.n, x.d * k)

RLt(x, y) == LET l == LCM(x.d, y.d)
             IN x.n * (l \div x.d) < y.n * (l \div y.d)

RLeq(x, y) == ~RLt(y, x)

RMax(x, y) == IF RLt(x, y) THEN y ELSE x

-----------------------------------------------------------------------------
(* Part I: simulate_payoff                                                  *)

\* while ... month < 1200   (src/loans.py:46)
MonthCap == 1200

\* Amounts are followed while their exact value has a denominator <= MaxDen.
MaxDen == 100000

\* Calls made in one behaviour of SpecRuns.
MaxCalls == 3

NoArgs == [balance |-> 0, rate_apr |-> 0, monthly_payment |-> 0, extra_payment |-> 0]

LoanArgs == [balance : {-10, 0, 10, 100, 1201, 10000},
             rate_apr : {0, 12, 600, 1200},
             monthly_payment : {0, 1, 11, 60, 300},
             extra_payment : {0, 5}]

RunArgs == [balance : {0, 10, 100},
            rate_apr : {0, 1200},
            monthly_payment : {0, 11},
            extra_payment : {0, 5}]

\* mutant of MonthlyRate: the annual rate used as the monthly one
MonthlyRateAnnual(rate_apr) == RDivInt(Rat(rate_apr), 100)

\* monthly_rate = (rate_apr / 100.0) / 12.0
MonthlyRate(rate_apr) == RDivInt(RDivInt(Rat(rate_apr), 100), 12)

\* the early returns of lines 32-40
ReturnsEmpty(a) ==
    \/ a.balance <= 0
    \/ a.monthly_payment <= 0
    \/ RLeq(Rat(a.monthly_payment + a.extra_payment),
            RMul(Rat(a.balance), MonthlyRate(a.rate_apr)))

\* mutant of Call: total_payment kept from the previous call, as a module-level
\* variable would be
CallStaleTotal(a) ==
    /\ pc \in {"idle", "done"}
    /\ calls < MaxCalls
    /\ calls' = calls + 1
    /\ args' = a
    /\ results' = IF pc = "done"
                  THEN results \cup {[args |-> args, schedule |-> schedule]}
                  ELSE results
    /\ schedule' = << >>
    /\ month' = 0
    /\ IF ReturnsEmpty(a)
       THEN /\ pc' = "done"
            /\ UNCHANGED <<monthly_rate, total_payment, curr_balance>>
       ELSE /\ pc' = "loop"
            /\ monthly_rate' = MonthlyRate(a.rate_apr)
            /\ total_payment' = IF calls = 0
                                THEN Rat(a.monthly_payment + a.extra_payment)
                                ELSE total_payment
            /\ curr_balance' = Rat(a.balance)

\* simulate_payoff(balance, rate_apr, monthly_payment, extra_payment): lines 32-44
Call(a) ==
    /\ pc \in {"idle", "done"}
    /\ calls < MaxCalls
    /\ calls' = calls + 1
    /\ args' = a
    /\ results' = IF pc = "done"
                  THEN results \cup {[args |-> args, schedule |-> schedule]}
                  ELSE results
    /\ schedule' = << >>
    /\ month' = 0
    /\ IF ReturnsEmpty(a)
       THEN /\ pc' = "done"
            /\ UNCHANGED <<monthly_rate, total_payment, curr_balance>>
       ELSE /\ pc' = "loop"
            /\ monthly_rate' = MonthlyRate(a.rate_apr)
            /\ total_payment' = Rat(a.monthly_payment + a.extra_payment)
            /\ curr_balance' = Rat(a.balance)

\* mutant of LoopCond: the balance test forgotten
LoopCondCapOnly == month < MonthCap

\* loop condition of line 46
LoopCond == RLt(Zero, curr_balance) /\ month < MonthCap

\* mutant of Step: the clamp of lines 51-53 left out
StepNoClamp ==
    /\ pc = "loop"
    /\ LoopCond
    /\ curr_balance.d * monthly_rate.d <= MaxDen
    /\ LET interest == RMul(curr_balance, monthly_rate)
           principal == RSub(total_payment, interest)
           new_balance == RSub(curr_balance, principal)
       IN /\ month' = month + 1
          /\ total_payment' = total_payment
          /\ curr_balance' = new_balance
          /\ schedule' = Append(schedule,
                [Month |-> month + 1,
                 Balance |-> RMax(Zero, new_balance),
                 Interest |-> interest,
                 Principal |-> principal,
                 TotalPayment |-> total_payment])
    /\ UNCHANGED <<args, monthly_rate, pc, calls, results>>

\* one iteration of the while loop: lines 47-62
Step ==
    /\ pc = "loop"
    /\ LoopCond
    /\ curr_balance.d * monthly_rate.d <= MaxDen
    /\ LET interest == RMul(curr_balance, monthly_rate)
           principal0 == RSub(total_payment, interest)
           clamp == RLt(curr_balance, principal0)
           principal == IF clamp THEN curr_balance ELSE principal0
           payment == IF clamp THEN RAdd(interest, principal) ELSE total_payment
           new_balance == RSub(curr_balance, principal)
       IN /\ month' = month + 1
          /\ total_payment' = payment
          /\ curr_balance' = new_balance
          /\ schedule' = Append(schedule,
                [Month |-> month + 1,
                 Balance |-> RMax(Zero, new_balance),
                 Interest |-> interest,
                 Principal |-> principal,
                 TotalPayment |-> payment])
    /\ UNCHANGED <<args, monthly_rate, pc, calls, results>>

\* the loop condition fails: return pd.DataFrame(schedule), line 64
Return ==
    /\ pc = "loop"
    /\ ~LoopCond
    /\ pc' = "done"
    /\ UNCHANGED <<args, monthly_rate, total_payment, schedule, curr_balance,
                   month, calls, results>>

-----------------------------------------------------------------------------
(* Part II: the ledger, sync_plaid_transactions and statement upload        *)

Sessions == {1, 2}

\* Pages fetched plus statement batches uploaded in one behaviour.
MaxOps == 3

\* Python None as an identifier, and as a cursor
None == "None"

NoCursor == << >>

\* raw external transactions: "what" stands for the (date, name) pair; the last
\* one carries no amount
FeedRows == { [transaction_id |-> "a",  what |-> "w1", amount |-> 7],
              [transaction_id |-> "b",  what |-> "w2", amount |-> -5],
              [transaction_id |-> None, what |-> "w1"] }

Pages == { << >> } \cup { <<t>> : t \in FeedRows }
            \cup { <<t, t>> : t \in {r \in FeedRows : r.transaction_id = "a"} }

\* the feed's cursors are opaque tokens handed out in a fixed order
NextCursor(c) == IF c = NoCursor THEN <<1>> ELSE <<c[1] + 1>>

\* the cursor of a response without rows: the position asked for; a request
\* without cursor gets the empty string, which is not None
SameCursor(c) == IF c = NoCursor THEN <<0>> ELSE c

\* what client.transactions_sync answers to a request with cursor c
SyncResponses(c) ==
    { r \in [added : Pages, has_more : BOOLEAN, next_cursor : {NextCursor(c), SameCursor(c)}] :
        r.next_cursor = IF r.added = << >> THEN SameCursor(c) ELSE NextCursor(c) }

\* rows of an uploaded statement: (date, description) and amount
StatementRows == { [what |-> "w1", amount |-> -7], [what |-> "w2", amount |-> 5] }

Batches == { <<r, u>> : r \in {x \in StatementRows : x.what = "w1"}, u \in StatementRows }
             \cup { <<r>> : r \in {x \in StatementRows : x.what = "w2"} }

NoRun == [fetched |-> 0, committed |-> 0, ids |-> {}, stored |-> 0, replay |-> TRUE,
          seeded |-> FALSE]

NoFetch == [cursor |-> NoCursor, sync |-> << >>, get |-> << >>, result |-> << >>]

RECURSIVE SeqToBag(_)
SeqToBag(s) == IF s = << >> THEN EmptyBag ELSE SetToBag({Head(s)}) (+) SeqToBag(Tail(s))

\* number of rows of bag b carrying external identifier id
RECURSIVE CopiesOf(_, _, _)
CopiesOf(b, rows, id) ==
    IF rows = {} THEN 0
    ELSE LET r == CHOOSE x \in rows : TRUE
         IN (IF r.plaid_transaction_id = id THEN CopiesIn(r, b) ELSE 0)
            + CopiesOf(b, rows \ {r}, id)

IdCopies(b, id) == CopiesOf(b, BagToSet(b), id)

\* plaid_transaction_id = Column(String, unique=True, nullable=True)
UniqueIds(b) ==
    \A r \in BagToSet(b) :
        r.plaid_transaction_id # None => IdCopies(b, r.plaid_transaction_id) = 1

\* mutant of QueryById: the lookup never finds a row
QueryByIdNever(plaid_id) == FALSE

\* db.query(Transaction).filter(Transaction.plaid_transaction_id == plaid_id).first():
\* the session does not autoflush, so the query sees committed rows only
QueryById(plaid_id) == \E r \in BagToSet(ledger) : r.plaid_transaction_id = plaid_id

\* mutant of SignedAmount: the external sign kept
SignedAmountKept(t) == IF "amount" \in DOMAIN t THEN t.amount ELSE 0

\* raw_amount = t.get("amount", 0); signed_amount = -raw_amount
SignedAmount(t) == IF "amount" \in DOMAIN t THEN -(t.amount) ELSE 0

\* Transaction(...) of lines 524-532; ext records the external amount it came
\* from, << >> when there was none
NewTxn(t) == [source |-> "plaid",
              plaid_transaction_id |-> t.transaction_id,
              what |-> t.what,
              amount |-> SignedAmount(t),
              ext |-> IF "amount" \in DOMAIN t THEN <<t.amount>> ELSE << >>]

\* mutant of FetchTransactions: the fallback answers with a cursor past the
\* rows it fetched
FetchTransactionsAdvances(c, resp, get_rows) ==
    IF resp.added = << >> /\ c = NoCursor
    THEN [added |-> get_rows, has_more |-> FALSE, next_cursor |-> NextCursor(c)]
    ELSE resp

\* fetch_transactions(access_token, cursor): the sync response, replaced on a
\* first call without rows by the 30-day transactions/get result
FetchTransactions(c, resp, get_rows) ==
    IF resp.added = << >> /\ c = NoCursor
    THEN [added |-> get_rows, has_more |-> FALSE, next_cursor |-> resp.next_cursor]
    ELSE resp

\* lines 493-497
StartSync(p) ==
    /\ last_fetch' = NoFetch
    /\ at[p] \in {"idle", "done", "failed"}
    /\ \A q \in Sessions : q < p => at[q] # "idle"
    /\ ops < MaxOps
    /\ at' = [at EXCEPT ![p] = "fetch"]
    /\ total_new' = [total_new EXCEPT ![p] = 0]
    /\ cursor' = [cursor EXCEPT ![p] = item_cursor]
    /\ latest_cursor' = [latest_cursor EXCEPT ![p] = item_cursor]
    /\ has_more' = [has_more EXCEPT ![p] = TRUE]
    /\ raised' = [raised EXCEPT ![p] = "none"]
    /\ run' = [run EXCEPT ![p] = NoRun]
    /\ UNCHANGED <<dbVars, added, pending, count, ops, synced, uploaded, repeat>>

\* mutant of FetchPage: the cursor of the page is written to storage as soon as
\* the page arrives
FetchPageSavesCursor(p) ==
    /\ at[p] = "fetch"
    /\ has_more[p]
    /\ ops < MaxOps
    /\ ops' = ops + 1
    /\ \E resp \in SyncResponses(cursor[p]), get_rows \in Pages :
          LET resp_data == FetchTransactions(cursor[p], resp, get_rows)
              ids == {resp_data.added[i].transaction_id : i \in 1..Len(resp_data.added)}
          IN /\ (ops + 1 = MaxOps) => ~resp_data.has_more
             /\ (resp.added # << >> \/ cursor[p] # NoCursor) => get_rows = << >>
             /\ added' = [added EXCEPT ![p] = resp_data.added]
             /\ has_more' = [has_more EXCEPT ![p] = resp_data.has_more]
             /\ latest_cursor' = [latest_cursor EXCEPT ![p] = resp_data.next_cursor]
             /\ cursor' = [cursor EXCEPT ![p] = resp_data.next_cursor]
             /\ item_cursor' = resp_data.next_cursor
             /\ run' = [run EXCEPT ![p].fetched = @ + 1,
                                   ![p].ids = @ \cup (ids \ {None}),
                                   ![p].replay = @ /\ ids \subseteq synced,
                                   ![p].seeded = @ \/ (resp.added = << >> /\ cursor[p] = NoCursor)]
             /\ last_fetch' = [cursor |-> cursor[p], sync |-> <<resp>>,
                               get |-> get_rows, result |-> <<resp_data>>]
    /\ at' = [at EXCEPT ![p] = "rows"]
    /\ UNCHANGED <<ledger, pending, total_new, raised, count, synced, uploaded, repeat>>

\* lines 499-506: the loop test and one fetched page
FetchPage(p) ==
    /\ at[p] = "fetch"
    /\ has_more[p]
    /\ ops < MaxOps
    /\ ops' = ops + 1
    /\ \E resp \in SyncResponses(cursor[p]), get_rows \in Pages :
          LET resp_data == FetchTransactions(cursor[p], resp, get_rows)
              ids == {resp_data.added[i].transaction_id : i \in 1..Len(resp_data.added)}
          IN /\ (ops + 1 = MaxOps) => ~resp_data.has_more
             /\ (resp.added # << >> \/ cursor[p] # NoCursor) => get_rows = << >>
             /\ added' = [added EXCEPT ![p] = resp_data.added]
             /\ has_more' = [has_more EXCEPT ![p] = resp_data.has_more]
             /\ latest_cursor' = [latest_cursor EXCEPT ![p] = resp_data.next_cursor]
             /\ cursor' = [cursor EXCEPT ![p] = resp_data.next_cursor]
             /\ run' = [run EXCEPT ![p].fetched = @ + 1,
                                   ![p].ids = @ \cup (ids \ {None}),
                                   ![p].replay = @ /\ ids \subseteq synced,
                                   ![p].seeded = @ \/ (resp.added = << >> /\ cursor[p] = NoCursor)]
             /\ last_fetch' = [cursor |-> cursor[p], sync |-> <<resp>>,
                               get |-> get_rows, result |-> <<resp_data>>]
    /\ at' = [at EXCEPT ![p] = "rows"]
    /\ UNCHANGED <<dbVars, pending, total_new, raised, count, synced, uploaded, repeat>>

\* line 500 raises (no client, network): the exception leaves the function
FetchRaises(p) ==
    /\ last_fetch' = NoFetch
    /\ at[p] = "fetch"
    /\ has_more[p]
    /\ at' = [at EXCEPT ![p] = "failed"]
    /\ raised' = [raised EXCEPT ![p] = "FetchError"]
    /\ UNCHANGED <<dbVars, cursor, latest_cursor, has_more, added, pending, total_new,
                   count, historyVars>>

\* lines 508-534: one iteration of the for loop
ProcessRow(p) ==
    /\ last_fetch' = NoFetch
    /\ at[p] = "rows"
    /\ added[p] # << >>
    /\ LET t == Head(added[p])
           plaid_id == t.transaction_id
       IN IF plaid_id # None /\ QueryById(plaid_id)
          THEN UNCHANGED <<pending, total_new>>
          ELSE /\ pending' = [pending EXCEPT ![p] = Append(@, NewTxn(t))]
               /\ total_new' = [total_new EXCEPT ![p] = @ + 1]
    /\ added' = [added EXCEPT ![p] = Tail(@)]
    /\ UNCHANGED <<dbVars, at, cursor, latest_cursor, has_more, raised, count, historyVars>>

\* mutant of CommitPage: the page's rows are left for a later commit
CommitPageDeferred(p) ==
    /\ last_fetch' = NoFetch
    /\ at[p] = "rows"
    /\ added[p] = << >>
    /\ at' = [at EXCEPT ![p] = "fetch"]
    /\ run' = [run EXCEPT ![p].committed = @ + 1]
    /\ UNCHANGED <<dbVars, cursor, latest_cursor, has_more, added, pending, total_new,
                   raised, count, ops, synced, uploaded, repeat>>

\* line 536: db.commit() of the page; the unique constraint on
\* plaid_transaction_id rejects the whole page
CommitPage(p) ==
    /\ last_fetch' = NoFetch
    /\ at[p] = "rows"
    /\ added[p] = << >>
    /\ LET after == ledger (+) SeqToBag(pending[p])
       IN IF UniqueIds(after)
          THEN /\ ledger' = after
               /\ at' = [at EXCEPT ![p] = "fetch"]
               /\ run' = [run EXCEPT ![p].committed = @ + 1,
                                     ![p].stored = @ + Len(pending[p])]
               /\ UNCHANGED raised
          ELSE /\ at' = [at EXCEPT ![p] = "failed"]
               /\ raised' = [raised EXCEPT ![p] = "IntegrityError"]
               /\ UNCHANGED <<ledger, run>>
    /\ pending' = [pending EXCEPT ![p] = << >>]
    /\ UNCHANGED <<item_cursor, cursor, latest_cursor, has_more, added, total_new,
                   count, ops, synced, uploaded, repeat>>

\* db.commit() raises for another reason (connection lost): rolled back
CommitRaises(p) ==
    /\ last_fetch' = NoFetch
    /\ at[p] = "rows"
    /\ added[p] = << >>
    /\ at' = [at EXCEPT ![p] = "failed"]
    /\ raised' = [raised EXCEPT ![p] = "OperationalError"]
    /\ pending' = [pending EXCEPT ![p] = << >>]
    /\ UNCHANGED <<dbVars, cursor, latest_cursor, has_more, added, total_new,
                   count, historyVars>>

\* lines 538-541: has_more is false; the cursor is stored and total_new returned
FinishSync(p) ==
    /\ last_fetch' = NoFetch
    /\ at[p] = "fetch"
    /\ ~has_more[p]
    /\ item_cursor' = latest_cursor[p]
    /\ at' = [at EXCEPT ![p] = "done"]
    /\ synced' = synced \cup run[p].ids
    /\ UNCHANGED <<ledger, cursor, latest_cursor, has_more, added, pending, total_new,
                   raised, count, ops, run, uploaded, repeat>>

\* line 540 raises: item.cursor was assigned but not stored
FinishRaises(p) ==
    /\ last_fetch' = NoFetch
    /\ at[p] = "fetch"
    /\ ~has_more[p]
    /\ at' = [at EXCEPT ![p] = "failed"]
    /\ raised' = [raised EXCEPT ![p] = "OperationalError"]
    /\ UNCHANGED <<dbVars, cursor, latest_cursor, has_more, added, pending, total_new,
                   count, historyVars>>

\* process_files (spec 4.2): exact duplicates within the batch are dropped
RECURSIVE DropDuplicates(_)
DropDuplicates(b) ==
    IF b = << >> THEN << >>
    ELSE LET rest == DropDuplicates(SubSeq(b, 1, Len(b) - 1))
             r == b[Len(b)]
         IN IF \E i \in 1..Len(rest) : rest[i] = r THEN rest ELSE Append(rest, r)

\* the row save_to_db stores for a statement row
StatementTxn(r) == [source |-> "csv_upload",
                    plaid_transaction_id |-> None,
                    what |-> r.what,
                    amount |-> r.amount,
                    ext |-> << >>]

\* save_to_db (spec 4.2): a row already in the ledger with the same
\* (date, description, amount) is skipped
RECURSIVE NewRows(_, _)
NewRows(b, l) ==
    IF b = << >> THEN << >>
    ELSE LET r == Head(b)
             known == \E x \in BagToSet(l) : x.what = r.what /\ x.amount = r.amount
         IN IF known THEN NewRows(Tail(b), l)
            ELSE <<StatementTxn(r)>> \o NewRows(Tail(b), l (+) SetToBag({StatementTxn(r)}))

\* app.py:617-619: df_new = process_files(...); count = save_to_db(df_new, get_db())
Upload(batch) ==
    /\ last_fetch' = NoFetch
    /\ ops < MaxOps
    /\ ops' = ops + 1
    /\ LET new == NewRows(DropDuplicates(batch), ledger)
       IN /\ ledger' = ledger (+) SeqToBag(new)
          /\ count' = Len(new)
    /\ uploaded' = uploaded \cup {batch}
    /\ repeat' = (batch \in uploaded)
    /\ UNCHANGED <<item_cursor, sessionVars, synced, run>>

SyncInit ==
    /\ ledger = EmptyBag
    /\ item_cursor = NoCursor
    /\ at = [p \in Sessions |-> "idle"]
    /\ cursor = [p \in Sessions |-> NoCursor]
    /\ latest_cursor = [p \in Sessions |-> NoCursor]
    /\ has_more = [p \in Sessions |-> FALSE]
    /\ added = [p \in Sessions |-> << >>]
    /\ pending = [p \in Sessions |-> << >>]
    /\ total_new = [p \in Sessions |-> 0]
    /\ raised = [p \in Sessions |-> "none"]
    /\ count = 0
    /\ ops = 0
    /\ synced = {}
    /\ run = [p \in Sessions |-> NoRun]
    /\ uploaded = {}
    /\ repeat = FALSE
    /\ last_fetch = NoFetch

-----------------------------------------------------------------------------
(* Part III: analytics over the prepared frame (src/insights.py)            *)

\* a call that has not been made: no arguments, nothing returned
NoCall ==
    /\ fn = "none"
    /\ inp = << >>
    /\ ret = << >>

RECURSIVE SumSeq(_)
SumSeq(s) == IF s = << >> THEN 0 ELSE Head(s) + SumSeq(Tail(s))

RECURSIVE Concat(_)
Concat(ss) == IF ss = << >> THEN << >> ELSE Head(ss) \o Concat(Tail(ss))

Min(a, b) == IF a < b THEN a ELSE b

\* out["Month"] = out["Date"].dt.to_period("M")...: the month of a row as year*12 + (month-1)
MonthOf(date) == date.y * 12 + (date.m - 1)

\* strftime("%Y-%m") of a month
MonthLabel(mo) == [y |-> mo \div 12, m |-> (mo % 12) + 1]

\* mutant of NextMonth: the month number incremented without carrying into the year
NextMonthNoCarry(label) == [y |-> label.y, m |-> label.m + 1]

\* pd.to_datetime(last_month) + pd.DateOffset(months=1)
NextMonth(label) == IF label.m = 12 THEN [y |-> label.y + 1, m |-> 1]
                    ELSE [y |-> label.y, m |-> label.m + 1]

\* df[df["Amount"] < 0].groupby("Month")["Amount"].sum().abs()...sort_values("Month")
RECURSIVE MonthlyFrom(_, _)
MonthlyFrom(df, months) ==
    IF months = {} THEN << >>
    ELSE LET mo == CHOOSE x \in months : \A z \in months : x <= z
             rows == SelectSeq(df, LAMBDA r : r.Amount < 0 /\ MonthOf(r.Date) = mo)
             total == SumSeq([i \in 1..Len(rows) |-> rows[i].Amount])
         IN <<[Month |-> mo, Amount |-> Abs(total)]>> \o MonthlyFrom(df, months \ {mo})

Monthly(df) ==
    MonthlyFrom(df, {MonthOf(df[i].Date) : i \in {j \in 1..Len(df) : df[j].Amount < 0}})

\* mean of a sequence of integers, NaN entries (here << >>) skipped; << >> if none is left
MeanSkipNa(s) ==
    LET vals == SelectSeq(s, LAMBDA v : v # << >>)
    IN IF vals = << >> THEN << >>
       ELSE <<Frac(SumSeq([i \in 1..Len(vals) |-> vals[i][1]]), Len(vals))>>

\* monthly["Amount"].diff(): the first entry is NaN
Diff(a) == [i \in 1..Len(a) |-> IF i = 1 THEN << >> ELSE <<a[i] - a[i - 1]>>]

\* s.tail(k)
TailOf(s, k) == SubSeq(s, Len(s) - Min(k, Len(s)) + 1, Len(s))

\* mutant of TrendAdjusted: the floor at zero left out
TrendAdjustedNoFloor(last, recent_trend) ==
    RAdd(Rat(last), IF recent_trend # << >> THEN recent_trend[1] ELSE Zero)

\* max(monthly["Amount"].iloc[-1] + (recent_trend if pd.notna(recent_trend) else 0), 0)
TrendAdjusted(last, recent_trend) ==
    RMax(RAdd(Rat(last), IF recent_trend # << >> THEN recent_trend[1] ELSE Zero), Zero)

\* predict_spending(df): lines 150-213; None is << >>, 0.6 and 0.4 are 3/5 and 2/5
predict_spending(df) ==
    LET monthly == Monthly(df)
        amount == [i \in 1..Len(monthly) |-> monthly[i].Amount]
    IN IF Len(monthly) < 2
       THEN [forecast_month |-> << >>, forecast_value |-> << >>]
       ELSE LET lookback == Min(3, Len(monthly))
                rolling_forecast == MeanSkipNa([i \in 1..lookback |-> <<TailOf(amount, lookback)[i]>>])[1]
                recent_trend == MeanSkipNa(TailOf(Diff(amount), lookback))
                trend_adjusted == TrendAdjusted(amount[Len(amount)], recent_trend)
                forecast_value == RAdd(RMul(Frac(3, 5), rolling_forecast),
                                       RMul(Frac(2, 5), trend_adjusted))
                last_month == monthly[Len(monthly)].Month
            IN [forecast_month |-> <<NextMonth(MonthLabel(last_month))>>,
                forecast_value |-> <<forecast_value>>]

\* frames for predict_spending: for each month of October 2024 .. February 2025
\* one of a few lists of amounts (none, outflows, inflows, both)
ForecastMonths == <<[y |-> 2024, m |-> 10], [y |-> 2024, m |-> 11], [y |-> 2024, m |-> 12],
                    [y |-> 2025, m |-> 1], [y |-> 2025, m |-> 2]>>

MonthAmounts == { << >>, <<-10>>, <<-100>>, <<5>>, <<-10, -30>>, <<20, -100>> }

RowsOfMonth(label, amounts) ==
    [i \in 1..Len(amounts) |->
        [Date |-> [y |-> label.y, m |-> label.m, d |-> i], Description |-> "shop",
         Amount |-> amounts[i], Category |-> "Food"]]

ForecastFrames ==
    { Concat([k \in 1..Len(ForecastMonths) |-> RowsOfMonth(ForecastMonths[k], pick[k])]) :
        pick \in [1..Len(ForecastMonths) -> MonthAmounts] }

\* app.py:1114: forecast = predict_spending(filtered_df)
PredictSpending ==
    /\ fn = "none"
    /\ fn' = "predict_spending"
    /\ ret' = predict_spending(inp)
    /\ UNCHANGED inp

\* ---- dates: records [y, m, d]

IsLeap(y) == (y % 4 = 0 /\ y % 100 # 0) \/ y % 400 = 0

DaysInMonth(y, m) == IF m = 2 THEN (IF IsLeap(y) THEN 29 ELSE 28)
                     ELSE IF m \in {4, 6, 9, 11} THEN 30 ELSE 31

RECURSIVE DaysBeforeMonth(_, _)
DaysBeforeMonth(y, m) == IF m = 1 THEN 0 ELSE DaysBeforeMonth(y, m - 1) + DaysInMonth(y, m - 1)

\* date.toordinal()
Ordinal(date) ==
    LET y1 == date.y - 1
    IN 365 * y1 + (y1 \div 4) - (y1 \div 100) + (y1 \div 400)
       + DaysBeforeMonth(date.y, date.m) + date.d

\* date - pd.DateOffset(months=k): the day is clipped to the length of the month
SubMonths(date, k) ==
    LET mo == MonthOf(date) - k
        y == mo \div 12
        m == (mo % 12) + 1
    IN [y |-> y, m |-> m, d |-> Min(date.d, DaysInMonth(y, m))]

\* df["Date"].max() and .min() as ordinals
MaxOrdinal(df) == CHOOSE x \in {Ordinal(df[i].Date) : i \in 1..Len(df)} :
                      \A i \in 1..Len(df) : Ordinal(df[i].Date) <= x

MinOrdinal(df) == CHOOSE x \in {Ordinal(df[i].Date) : i \in 1..Len(df)} :
                      \A i \in 1..Len(df) : x <= Ordinal(df[i].Date)

MaxDate(df) == df[CHOOSE i \in 1..Len(df) : Ordinal(df[i].Date) = MaxOrdinal(df)].Date

\* sort_values: stable sort of s by the integer keys key[i]
RECURSIVE SortByKey(_, _)
SortByKey(s, key) ==
    IF s = << >> THEN << >>
    ELSE LET i == CHOOSE j \in 1..Len(s) :
                      /\ \A k \in 1..Len(s) : key[j] <= key[k]
                      /\ \A k \in 1..(j - 1) : key[k] # key[j]
             drop(t) == SubSeq(t, 1, i - 1) \o SubSeq(t, i + 1, Len(t))
         IN <<s[i]>> \o SortByKey(drop(s), drop(key))

\* ---- detect_anomalies

\* the descriptions of the frames, in the order sort_values puts them
Descriptions == <<"Coffee Shop", "Laptop", "Market">>

DescRank(d) == CHOOSE i \in 1..Len(Descriptions) : Descriptions[i] = d

NoFindings == [spikes |-> << >>, duplicates |-> << >>, overspend_risk |-> << >>]

\* expenses["Amount"].mean()
MeanAmount(rows) == Frac(SumSeq([i \in 1..Len(rows) |-> rows[i].Amount]), Len(rows))

\* the square of expenses["Amount"].std(ddof=0)
VarAmount(rows) ==
    LET mean == MeanAmount(rows)
        sq(i) == RMul(RSub(Rat(rows[i].Amount), mean), RSub(Rat(rows[i].Amount), mean))
        sumsq[i \in 0..Len(rows)] == IF i = 0 THEN Zero ELSE RAdd(sumsq[i - 1], sq(i))
    IN RDivInt(sumsq[Len(rows)], Len(rows))

\* mutant of BelowMinusTwo: one standard deviation is enough
BelowMinusOne(dev, var) == RLt(dev, Zero) /\ RLt(var, RMul(dev, dev))

\* mutant of BelowMinusTwo: three standard deviations are needed
BelowMinusThree(dev, var) == RLt(dev, Zero) /\ RLt(RMul(Rat(9), var), RMul(dev, dev))

\* zscore < -2 for zscore = dev / sqrt(var), var > 0
BelowMinusTwo(dev, var) == RLt(dev, Zero) /\ RLt(RMul(Rat(4), var), RMul(dev, dev))

\* mutant of SpanDays: every group counts as within the week
SpanDaysZero(g) == 0

\* (g["Date"].max() - g["Date"].min()).days
SpanDays(g) == MaxOrdinal(g) - MinOrdinal(g)

\* detect_anomalies(df, budgets=None, lookback_months): lines 96-143.  The
\* z-score of a row is kept as the pair (dev, var): it is dev / sqrt(var).
detect_anomalies(df, lookback_months) ==
    IF df = << >> THEN NoFindings
    ELSE
    LET cutoff == SubMonths(MaxDate(df), lookback_months)
        window == SelectSeq(df, LAMBDA r : Ordinal(r.Date) >= Ordinal(cutoff))
        expenses == SelectSeq(window, LAMBDA r : r.Amount < 0)
    IN IF expenses = << >> THEN NoFindings
       ELSE
       LET var == VarAmount(expenses)
           mean_spend == MeanAmount(expenses)
           dev(r) == RSub(Rat(r.Amount), mean_spend)
           scored == [i \in 1..Len(expenses) |->
                         [row |-> expenses[i], dev |-> dev(expenses[i]), var |-> var]]
           below == SelectSeq(scored, LAMBDA z : BelowMinusTwo(z.dev, z.var))
           \* all deviations have denominator Len(expenses)
           spike_df == IF var = Zero THEN << >>
                       ELSE SortByKey(below, [i \in 1..Len(below) |->
                                below[i].dev.n * (Len(expenses) \div below[i].dev.d)])
           group(r) == SelectSeq(expenses, LAMBDA x : /\ x.Description = r.Description
                                                      /\ Abs(x.Amount) = Abs(r.Amount))
           kept == SelectSeq(expenses, LAMBDA r : Len(group(r)) > 1 /\ SpanDays(group(r)) <= 7)
           dup_df == SortByKey(kept, [i \in 1..Len(kept) |->
                         DescRank(kept[i].Description) * 1000000 + Ordinal(kept[i].Date)])
       IN [spikes |-> spike_df, duplicates |-> dup_df, overspend_risk |-> << >>]

\* frames for detect_anomalies: each slot is a dated transaction that is absent
\* (<< >>) or has one of a few amounts; amounts are in units of ten dollars
Slots == << [Date |-> [y |-> 2024, m |-> 7, d |-> 5],  Description |-> "Laptop",
             amounts |-> {<< >>, <<-500>>}],
            [Date |-> [y |-> 2024, m |-> 7, d |-> 6],  Description |-> "Laptop",
             amounts |-> {<< >>, <<-500>>}],
            [Date |-> [y |-> 2025, m |-> 1, d |-> 1],  Description |-> "Coffee Shop",
             amounts |-> {<< >>, <<-5>>, <<-4>>}],
            [Date |-> [y |-> 2025, m |-> 1, d |-> 3],  Description |-> "Coffee Shop",
             amounts |-> {<< >>, <<-5>>, <<-6>>, <<5>>}],
            [Date |-> [y |-> 2025, m |-> 1, d |-> 9],  Description |-> "Coffee Shop",
             amounts |-> {<< >>, <<-5>>, <<-4>>}],
            [Date |-> [y |-> 2025, m |-> 1, d |-> 10], Description |-> "Market",
             amounts |-> {<< >>, <<-6>>, <<-4>>}],
            [Date |-> [y |-> 2025, m |-> 1, d |-> 11], Description |-> "Market",
             amounts |-> {<< >>, <<-6>>}],
            [Date |-> [y |-> 2025, m |-> 1, d |-> 12], Description |-> "Market",
             amounts |-> {<< >>, <<-4>>, <<-6>>}],
            [Date |-> [y |-> 2025, m |-> 1, d |-> 15], Description |-> "Laptop",
             amounts |-> {<< >>, <<-500>>}] >>

SlotRow(k, amount) ==
    IF amount = << >> THEN << >>
    ELSE <<[Date |-> Slots[k].Date, Description |-> Slots[k].Description,
            Amount |-> amount[1], Category |-> "Shopping"]>>

AnomalyFrames ==
    { Concat([k \in 1..Len(Slots) |-> SlotRow(k, pick[k])]) :
        pick \in { f \in [1..Len(Slots) -> UNION {Slots[k].amounts : k \in 1..Len(Slots)}] :
                      \A k \in 1..Len(Slots) : f[k] \in Slots[k].amounts } }

LookbackMonths == {1, 6}

\* app.py:1097, mcp_server.py:137: detect_anomalies(df, lookback_months=...)
DetectAnomalies ==
    /\ fn = "none"
    /\ fn' = "detect_anomalies"
    /\ ret' = detect_anomalies(inp.df, inp.lookback_months)
    /\ UNCHANGED inp

\* ---- budgets (src/app.py:544-567, 884-899; src/insights.py:444-461)

\* float(budget.monthly_limit or 0); a limit is << >> (None) or <<v>>
LimitOf(budget) == IF budget.monthly_limit = << >> THEN 0 ELSE budget.monthly_limit[1]

\* mutant of IsOver: a budget spent to the cent counts as over
IsOverOrSpent(remaining) == remaining <= 0

\* "is_over": remaining < 0
IsOver(remaining) == remaining < 0

\* compute_budget_status(df_prep, budgets) on the day today
compute_budget_status(df_prep, budgets, today) ==
    IF df_prep = << >> \/ budgets = << >> THEN << >>
    ELSE
    LET current_month == MonthOf(today)
        month_df == SelectSeq(df_prep, LAMBDA r : MonthOf(r.Date) = current_month)
        expenses == SelectSeq(month_df, LAMBDA r : r.Amount < 0)
        spent_by_cat(c) ==
            LET rows == SelectSeq(expenses, LAMBDA r : r.Category = c)
            IN Abs(SumSeq([i \in 1..Len(rows) |-> rows[i].Amount]))
    IN [i \in 1..Len(budgets) |->
          LET limit == LimitOf(budgets[i])
              spent == spent_by_cat(budgets[i].category)
              remaining == limit - spent
          IN [category |-> budgets[i].category,
              limit |-> limit,
              spent |-> spent,
              remaining |-> remaining,
              pct |-> IF limit > 0 THEN Frac(spent, limit) ELSE Zero,
              is_over |-> IsOver(remaining)]]

\* summarize_budget_watch(budget_status): one alert per entry at most
summarize_budget_watch(budget_status) ==
    LET alert(entry) ==
            IF entry.limit <= 0 THEN << >>
            ELSE IF entry.is_over THEN <<[kind |-> "over", category |-> entry.category]>>
            ELSE IF RLeq(Frac(4, 5), entry.pct)
                 THEN <<[kind |-> "at risk", category |-> entry.category]>>
            ELSE << >>
    IN Concat([i \in 1..Len(budget_status) |-> alert(budget_status[i])])

\* tab1, lines 884-892: st.error for every entry that is over
dashboard_errors(budget_status) ==
    Concat([i \in 1..Len(budget_status) |->
              IF budget_status[i].is_over
              THEN <<[kind |-> "over", category |-> budget_status[i].category]>>
              ELSE << >>])

\* tab2, lines 896-899: st.warning for every entry that is over
log_warnings(budget_status) ==
    LET over_budget == SelectSeq(budget_status, LAMBDA b : b.is_over)
    IN [i \in 1..Len(over_budget) |-> [kind |-> "over", category |-> over_budget[i].category]]

\* frames for the budget functions: slots as for detect_anomalies, amounts in dollars
BudgetSlots ==
    << [Date |-> [y |-> 2025, m |-> 1, d |-> 5],   Category |-> "Food", amounts |-> {<< >>, <<-40>>, <<-60>>}],
       [Date |-> [y |-> 2025, m |-> 1, d |-> 10],  Category |-> "Food", amounts |-> {<< >>, <<-40>>, <<-60>>, <<40>>}],
       [Date |-> [y |-> 2024, m |-> 12, d |-> 28], Category |-> "Food", amounts |-> {<< >>, <<-60>>}],
       [Date |-> [y |-> 2024, m |-> 1, d |-> 10],  Category |-> "Food", amounts |-> {<< >>, <<-60>>}],
       [Date |-> [y |-> 2025, m |-> 1, d |-> 7],   Category |-> "Rent", amounts |-> {<< >>, <<-100>>}] >>

BudgetSlotRow(k, amount) ==
    IF amount = << >> THEN << >>
    ELSE <<[Date |-> BudgetSlots[k].Date, Description |-> "shop",
            Amount |-> amount[1], Category |-> BudgetSlots[k].Category]>>

BudgetFrames ==
    { Concat([k \in 1..Len(BudgetSlots) |-> BudgetSlotRow(k, pick[k])]) :
        pick \in { f \in [1..Len(BudgetSlots) -> UNION {BudgetSlots[k].amounts : k \in 1..Len(BudgetSlots)}] :
                      \A k \in 1..Len(BudgetSlots) : f[k] \in BudgetSlots[k].amounts } }

\* CategoryBudget rows: at most one per category (app.py:844-849)
Limits == {<< >>, <<0>>, <<50>>, <<100>>}

BudgetLists ==
    { << >> }
    \cup { <<[category |-> c, monthly_limit |-> l]>> : c \in {"Food", "Rent"}, l \in Limits }
    \cup { <<[category |-> "Food", monthly_limit |-> l], [category |-> "Rent", monthly_limit |-> k]>> :
             l \in Limits, k \in Limits }

Todays == { [y |-> 2025, m |-> 1, d |-> 20], [y |-> 2024, m |-> 12, d |-> 31] }

\* app.py:700: budget_status = compute_budget_status(df_prep, visible_budgets)
ComputeBudgetStatus ==
    /\ fn = "none"
    /\ fn' = "compute_budget_status"
    /\ ret' = compute_budget_status(inp.df, inp.budgets, inp.today)
    /\ UNCHANGED inp

\* app.py:1106: budget_alerts = summarize_budget_watch(budget_status)
SummarizeBudgetWatch ==
    /\ fn = "compute_budget_status"
    /\ fn' = "summarize_budget_watch"
    /\ ret' = [budget_status |-> ret, alerts |-> summarize_budget_watch(ret)]
    /\ UNCHANGED inp

\* app.py:884-892: the budgets of the dashboard tab
DashboardBudgets ==
    /\ fn = "compute_budget_status"
    /\ fn' = "dashboard"
    /\ ret' = [budget_status |-> ret, alerts |-> dashboard_errors(ret)]
    /\ UNCHANGED inp

\* app.py:896-899: the warnings of the transaction log tab
TransactionLog ==
    /\ fn = "compute_budget_status"
    /\ fn' = "transaction_log"
    /\ ret' = [budget_status |-> ret, alerts |-> log_warnings(ret)]
    /\ UNCHANGED inp

\* ---- forecast_cash_flow (src/insights.py:289-329)

\* recent_window.groupby(recent_window["Date"].dt.date)["Amount"].sum(): one
\* total per date that has a row, in date order
RECURSIVE DailySums(_, _)
DailySums(rows, days) ==
    IF days = {} THEN << >>
    ELSE LET day == CHOOSE x \in days : \A z \in days : x <= z
             on == SelectSeq(rows, LAMBDA r : Ordinal(r.Date) = day)
         IN <<SumSeq([i \in 1..Len(on) |-> on[i].Amount])>> \o DailySums(rows, days \ {day})

\* recurring_total += float(getattr(exp, "amount", 0) or 0)
RecurringTotal(recurring_expenses) ==
    SumSeq([i \in 1..Len(recurring_expenses) |->
               IF recurring_expenses[i].amount = << >> THEN 0
               ELSE recurring_expenses[i].amount[1]])

\* forecast_cash_flow(df, recurring_expenses, horizons)
forecast_cash_flow(df, recurring_expenses, horizons) ==
    IF df = << >> THEN << >>
    ELSE
    LET df_sorted == SortByKey(df, [i \in 1..Len(df) |-> Ordinal(df[i].Date)])
        base_balance == SumSeq([i \in 1..Len(df_sorted) |-> df_sorted[i].Amount])
        since == MaxOrdinal(df_sorted) - 90
        window == SelectSeq(df_sorted, LAMBDA r : Ordinal(r.Date) >= since)
        recent_window == IF window = << >> THEN df_sorted ELSE window
        sums == DailySums(recent_window,
                          {Ordinal(recent_window[i].Date) : i \in 1..Len(recent_window)})
        daily_net == Frac(SumSeq(sums), Len(sums))
        recurring_total == RecurringTotal(recurring_expenses)
    IN [k \in 1..Len(horizons) |->
          LET days == horizons[k]
              projected_net == RMul(daily_net, Rat(days))
              recurring_hit == RMul(Rat(recurring_total), Frac(days, 30))
          IN [horizon_days |-> days,
              projected_net |-> projected_net,
              recurring |-> recurring_hit,
              ending_balance |-> RSub(RAdd(Rat(base_balance), projected_net), recurring_hit)]]

\* frames for forecast_cash_flow: dated slots, amounts in dollars
CashSlots ==
    << [Date |-> [y |-> 2024, m |-> 9,  d |-> 1], amounts |-> {<< >>, <<-500>>}],
       [Date |-> [y |-> 2024, m |-> 10, d |-> 5], amounts |-> {<< >>, <<3000>>}],
       [Date |-> [y |-> 2025, m |-> 1,  d |-> 1], amounts |-> {<< >>, <<-90>>, <<3000>>}],
       [Date |-> [y |-> 2025, m |-> 1,  d |-> 2], amounts |-> {<< >>, <<-90>>}],
       [Date |-> [y |-> 2025, m |-> 1,  d |-> 2], amounts |-> {<< >>, <<-30>>, <<60>>}],
       [Date |-> [y |-> 2025, m |-> 1,  d |-> 3], amounts |-> {<< >>, <<-90>>, <<-60>>}] >>

CashSlotRow(k, amount) ==
    IF amount = << >> THEN << >>
    ELSE <<[Date |-> CashSlots[k].Date, Description |-> "shop",
            Amount |-> amount[1], Category |-> "Food"]>>

CashFrames ==
    { Concat([k \in 1..Len(CashSlots) |-> CashSlotRow(k, pick[k])]) :
        pick \in { f \in [1..Len(CashSlots) -> UNION {CashSlots[k].amounts : k \in 1..Len(CashSlots)}] :
                      \A k \in 1..Len(CashSlots) : f[k] \in CashSlots[k].amounts } }

\* FixedExpense rows (src/database.py:63-72): amount is << >> (None) or <<v>>
RecurringLists == { << >>, <<[amount |-> <<300>>]>>, <<[amount |-> <<300>>], [amount |-> << >>]>> }

HorizonLists == { <<30, 60, 90>>, <<45>> }

ForecastCashFlow ==
    /\ fn = "none"
    /\ fn' = "forecast_cash_flow"
    /\ ret' = forecast_cash_flow(inp.df, inp.recurring_expenses, inp.horizons)
    /\ UNCHANGED inp

\* ---- predict_cash_balance (src/mcp_server.py:61-86)

\* daily.tail(90): the last 90 entries
Tail90(s) == IF Len(s) <= 90 THEN s ELSE SubSeq(s, Len(s) - 89, Len(s))

\* predict_cash_balance(req, db): df the frame of all transactions,
\* fixed_expenses the FixedExpense rows, period_days the request's field.
\* sum() over an amount that is None raises TypeError.
predict_cash_balance(df, fixed_expenses, period_days) ==
    IF \E i \in 1..Len(fixed_expenses) : fixed_expenses[i].amount = << >>
    THEN [status |-> "raised", error |-> "TypeError"]
    ELSE
    LET fixed_total == SumSeq([i \in 1..Len(fixed_expenses) |-> fixed_expenses[i].amount[1]])
    IN IF df = << >>
       THEN [status |-> "ok",
             projected_balance |-> Rat(-fixed_total),
             avg_daily_net |-> Zero,
             sample_days |-> 0,
             fixed_expenses |-> fixed_total]
       ELSE
       LET df_sorted == SortByKey(df, [i \in 1..Len(df) |-> Ordinal(df[i].Date)])
           daily == DailySums(df_sorted, {Ordinal(df_sorted[i].Date) : i \in 1..Len(df_sorted)})
           daily_window == Tail90(daily)
           avg_daily_net == Frac(SumSeq(daily_window), Len(daily_window))
           current_balance == SumSeq([i \in 1..Len(df_sorted) |-> df_sorted[i].Amount])
           projected == RSub(RAdd(Rat(current_balance), RMul(avg_daily_net, Rat(period_days))),
                             Frac(fixed_total * period_days, 30))
       IN [status |-> "ok",
           projected_balance |-> projected,
           avg_daily_net |-> avg_daily_net,
           sample_days |-> Len(daily_window),
           fixed_expenses |-> fixed_total]

\* PredictCashBalanceRequest.period_days (1 to 365, 30 when omitted)
PeriodDays == {30, 60}

\* POST /tools/predict_cash_balance
PredictCashBalance ==
    /\ fn = "none"
    /\ fn' = "predict_cash_balance"
    /\ ret' = predict_cash_balance(inp.df, inp.fixed_expenses, inp.period_days)
    /\ UNCHANGED inp

\* ---- parse_statement (src/process_transactions.py:41-155)
\* Column names and cells are sequences of characters.

DESCRIPTION_PATTERNS == << <<"d", "e", "s", "c", "r", "i", "p", "t", "i", "o", "n">>,
       <<"d", "e", "t", "a", "i", "l", "s">>,
       <<"n", "a", "m", "e">>,
       <<"m", "e", "m", "o">>,
       <<"t", "r", "a", "n", "s", "a", "c", "t", "i", "o", "n">>,
       <<"m", "e", "r", "c", "h", "a", "n", "t">> >>

DATE_PATTERNS == << <<"d", "a", "t", "e">>,
       <<"t", "r", "a", "n", "s", "a", "c", "t", "i", "o", "n", " ", "d", "a", "t", "e">>,
       <<"p", "o", "s", "t", "e", "d">>,
       <<"p", "o", "s", "t", " ", "d", "a", "t", "e">>,
       <<"v", "a", "l", "u", "e", " ", "d", "a", "t", "e">> >>

AMOUNT_PATTERNS == << <<"a", "m", "o", "u", "n", "t">>,
       <<"d", "e", "b", "i", "t">>,
       <<"c", "r", "e", "d", "i", "t">>,
       <<"a", "m", "o", "u", "n", "t", " ", "$">>,
       <<"a", "m", "t">>,
       <<"w", "i", "t", "h", "d", "r", "a", "w", "a", "l">>,
       <<"d", "e", "p", "o", "s", "i", "t">> >>

UpperCase == <<"A", "B", "C", "D", "E", "F", "G", "H", "I", "J", "K", "L", "M", "N", "O", "P", "Q", "R", "S", "T", "U", "V", "W", "X", "Y", "Z">>

LowerCase == <<"a", "b", "c", "d", "e", "f", "g", "h", "i", "j", "k", "l", "m", "n", "o", "p", "q", "r", "s", "t", "u", "v", "w", "x", "y", "z">>

\* str.lower()
Lower(s) == [i \in 1..Len(s) |->
               IF \E k \in 1..Len(UpperCase) : UpperCase[k] = s[i]
               THEN LowerCase[CHOOSE k \in 1..Len(UpperCase) : UpperCase[k] = s[i]]
               ELSE s[i]]

\* pattern in col
Contains(col, pattern) ==
    \E i \in 1..(Len(col) - Len(pattern) + 1) : SubSeq(col, i, i + Len(pattern) - 1) = pattern

\* infer_column(df, patterns): index of the column found, 0 for None
RECURSIVE infer_column(_, _)
infer_column(columns, patterns) ==
    IF patterns = << >> THEN 0
    ELSE LET hits == {c \in 1..Len(columns) : Contains(Lower(columns[c]), Head(patterns))}
         IN IF hits # {} THEN CHOOSE c \in hits : \A h \in hits : c <= h
            ELSE infer_column(columns, Tail(patterns))

\* the loop of lines 126-131: the last column that matches, 0 for None
LastColumn(columns, p, q) ==
    LET hits == {c \in 1..Len(columns) : \/ Contains(Lower(columns[c]), p)
                                         \/ Contains(Lower(columns[c]), q)}
    IN IF hits = {} THEN 0 ELSE CHOOSE c \in hits : \A h \in hits : h <= c

DigitChars == <<"0", "1", "2", "3", "4", "5", "6", "7", "8", "9">>

IsDigit(c) == \E k \in 1..10 : DigitChars[k] = c

DigitValue(c) == (CHOOSE k \in 1..10 : DigitChars[k] = c) - 1

RECURSIVE IntOf(_)
IntOf(s) == IF s = << >> THEN 0 ELSE IntOf(SubSeq(s, 1, Len(s) - 1)) * 10 + DigitValue(s[Len(s)])

\* pd.to_numeric(cell, errors="coerce") for one cell: <<cents>>, << >> for NaN;
\* numbers have at most two decimals
to_numeric(s) ==
    LET signed == s # << >> /\ s[1] \in {"-", "+"}
        body == IF signed THEN Tail(s) ELSE s
        dots == {i \in 1..Len(body) : body[i] = "."}
        whole == IF dots = {} THEN body ELSE SubSeq(body, 1, (CHOOSE i \in dots : TRUE) - 1)
        frac == IF dots = {} THEN << >>
                ELSE SubSeq(body, (CHOOSE i \in dots : TRUE) + 1, Len(body))
        ok == /\ Cardinality(dots) <= 1
              /\ Len(whole) + Len(frac) >= 1
              /\ Len(frac) <= 2
              /\ \A i \in 1..Len(whole) : IsDigit(whole[i])
              /\ \A i \in 1..Len(frac) : IsDigit(frac[i])
        cents == IntOf(whole) * 100
                 + (IF Len(frac) = 1 THEN IntOf(frac) * 10 ELSE IntOf(frac))
    IN IF ~ok THEN << >>
       ELSE IF signed /\ s[1] = "-" THEN <<-cents>> ELSE <<cents>>

\* .fillna(0)
FillNa(v) == IF v = << >> THEN 0 ELSE v[1]

\* astype(str): a missing cell becomes "nan"
AsStr(cell) == IF cell = << >> THEN <<"n", "a", "n">> ELSE cell

\* str.replace(r"[\$,]", "", regex=True)
StripSymbols(s) == SelectSeq(s, LAMBDA c : c \notin {"$", ","})

\* str.replace(r"\((.*?)\)", r"-\1", regex=True)
RECURSIVE ReplaceParens(_)
ReplaceParens(s) ==
    LET opens == {i \in 1..Len(s) : s[i] = "(" /\ \E j \in (i + 1)..Len(s) : s[j] = ")"}
    IN IF opens = {} THEN s
       ELSE LET i == CHOOSE x \in opens : \A z \in opens : x <= z
                j == CHOOSE x \in (i + 1)..Len(s) :
                         s[x] = ")" /\ \A z \in (i + 1)..(x - 1) : s[z] # ")"
            IN SubSeq(s, 1, i - 1) \o <<"-">> \o SubSeq(s, i + 1, j - 1)
               \o ReplaceParens(SubSeq(s, j + 1, Len(s)))

\* mutant of NetAmount: the columns taken the other way round
NetAmountReversed(credit, debit) == debit - credit

\* out["Amount"] = credit - debit
NetAmount(credit, debit) == credit - debit

ValidDate == <<"2", "0", "2", "5", "-", "0", "1", "-", "0", "5">>

\* pd.to_datetime(cell, errors="coerce"): << >> for NaT
to_datetime(cell) == IF cell = ValidDate THEN <<[y |-> 2025, m |-> 1, d |-> 5]>> ELSE << >>

\* parse_statement(path) for a file read as the frame df = [columns, rows];
\* status is "None" when None is returned and "KeyError" when df[None] raises
parse_statement(df) ==
    IF df.rows = << >> THEN [status |-> "None", out |-> << >>]
    ELSE
    LET date_col == infer_column(df.columns, DATE_PATTERNS)
        desc_col == infer_column(df.columns, DESCRIPTION_PATTERNS)
        amount_col == infer_column(df.columns, AMOUNT_PATTERNS)
        debit_col == LastColumn(df.columns, <<"d", "e", "b", "i", "t">>, <<"w", "i", "t", "h", "d", "r", "a", "w", "a", "l">>)
        credit_col == LastColumn(df.columns, <<"c", "r", "e", "d", "i", "t">>, <<"d", "e", "p", "o", "s", "i", "t">>)
    IN IF date_col = 0 \/ desc_col = 0 THEN [status |-> "None", out |-> << >>]
       ELSE IF (debit_col = 0 \/ credit_col = 0) /\ amount_col = 0
            THEN [status |-> "KeyError", out |-> << >>]
       ELSE
       LET amount(row) ==
               IF debit_col # 0 /\ credit_col # 0
               THEN NetAmount(FillNa(to_numeric(row[credit_col])),
                              FillNa(to_numeric(row[debit_col])))
               ELSE FillNa(to_numeric(ReplaceParens(StripSymbols(AsStr(row[amount_col])))))
           out == [i \in 1..Len(df.rows) |->
                     [Date |-> to_datetime(df.rows[i][date_col]),
                      Description |-> AsStr(df.rows[i][desc_col]),
                      Amount |-> amount(df.rows[i])]]
       IN [status |-> "ok", out |-> SelectSeq(out, LAMBDA r : r.Date # << >>)]

\* statements: a header and one row; the first cell is a date, not one or
\* missing, the second a text or missing, the others are drawn from Cells
Layouts == << <<<<"P", "o", "s", "t", " ", "D", "a", "t", "e">>, <<"M", "e", "m", "o">>, <<"D", "e", "b", "i", "t">>, <<"C", "r", "e", "d", "i", "t">>>>,
             <<<<"D", "a", "t", "e">>, <<"D", "e", "s", "c", "r", "i", "p", "t", "i", "o", "n">>, <<"A", "m", "o", "u", "n", "t">>>>,
             <<<<"D", "a", "t", "e">>, <<"D", "e", "s", "c", "r", "i", "p", "t", "i", "o", "n">>, <<"A", "m", "o", "u", "n", "t">>, <<"D", "e", "b", "i", "t">>, <<"C", "r", "e", "d", "i", "t">>>>,
             <<<<"T", "r", "a", "n", "s", "a", "c", "t", "i", "o", "n", " ", "D", "a", "t", "e">>, <<"D", "e", "t", "a", "i", "l", "s">>, <<"W", "i", "t", "h", "d", "r", "a", "w", "a", "l">>, <<"D", "e", "p", "o", "s", "i", "t">>>>,
             <<<<"D", "a", "t", "e">>, <<"D", "e", "s", "c", "r", "i", "p", "t", "i", "o", "n">>, <<"D", "e", "b", "i", "t">>>>,
             <<<<"D", "a", "t", "e">>, <<"B", "a", "l", "a", "n", "c", "e">>, <<"A", "m", "o", "u", "n", "t">>>>,
             <<<<"D", "a", "t", "e">>, <<"D", "e", "s", "c", "r", "i", "p", "t", "i", "o", "n">>, <<"V", "a", "l", "u", "e">>>> >>

Cells == { << >>,
           <<"1", "2">>,
           <<"1", "2", ".", "5">>,
           <<"-", "7">>,
           <<"$", "1", ",", "2", "0", "0", ".", "5", "0">>,
           <<"(", "4", "5", ".", "0", "0", ")">>,
           <<"n", "/", "a">> }

Statements ==
    { [columns |-> Layouts[l], rows |-> << >>] : l \in 1..Len(Layouts) }
    \cup
    { [columns |-> Layouts[l], rows |-> <<row>>] :
        l \in 1..Len(Layouts),
        row \in { r \in [1..5 -> Cells \cup {ValidDate, <<"C", "a", "f", "e">>}] :
                    /\ r[1] \in {ValidDate, <<"n", "/", "a">>, << >>}
                    /\ r[2] \in {<<"C", "a", "f", "e">>, << >>}
                    /\ \A k \in 3..5 : r[k] \in Cells } }

\* the cells of a row beyond the header are not part of the frame
Frame(statement) ==
    [columns |-> statement.columns,
     rows |-> [i \in 1..Len(statement.rows) |->
                  SubSeq(statement.rows[i], 1, Len(statement.columns))]]

\* process_directory, line 199: df = parse_statement(Path(file))
ParseStatement ==
    /\ fn = "none"
    /\ fn' = "parse_statement"
    /\ ret' = parse_statement(inp)
    /\ UNCHANGED inp

\* ---- binary64 arithmetic (IEEE 754 double precision, round to nearest even)
\* The z-score test of detect_anomalies can hinge on the last bit, so here the
\* floats of numpy are followed bit by bit.  A natural number is a sequence
\* of limbs in base 2^15, lowest first, without leading zero limbs; a float
\* is [sign, m, e] with value sign * m * 2^e and m of exactly 53 bits (the
\* amounts are far from the range where exponents run out).

Limb == 32768

Pow2(k) == 2 ^ k

RECURSIVE BNorm(_)
BNorm(a) == IF a # << >> /\ a[Len(a)] = 0 THEN BNorm(SubSeq(a, 1, Len(a) - 1)) ELSE a

RECURSIVE BAddFrom(_, _, _, _)
BAddFrom(a, b, i, carry) ==
    IF i > Len(a) /\ i > Len(b)
    THEN IF carry = 0 THEN << >> ELSE <<carry>>
    ELSE LET t == (IF i <= Len(a) THEN a[i] ELSE 0) + (IF i <= Len(b) THEN b[i] ELSE 0) + carry
         IN <<t % Limb>> \o BAddFrom(a, b, i + 1, t \div Limb)

BAdd(a, b) == BAddFrom(a, b, 1, 0)

\* a - b for a >= b
RECURSIVE BSubFrom(_, _, _, _)
BSubFrom(a, b, i, borrow) ==
    IF i > Len(a) THEN << >>
    ELSE LET t == a[i] - (IF i <= Len(b) THEN b[i] ELSE 0) - borrow
         IN IF t < 0 THEN <<t + Limb>> \o BSubFrom(a, b, i + 1, 1)
            ELSE <<t>> \o BSubFrom(a, b, i + 1, 0)

BSub(a, b) == BNorm(BSubFrom(a, b, 1, 0))

\* -1, 0, 1 as a < b, a = b, a > b
BCmp(a, b) ==
    IF Len(a) # Len(b) THEN (IF Len(a) < Len(b) THEN -1 ELSE 1)
    ELSE LET diff == {i \in 1..Len(a) : a[i] # b[i]}
         IN IF diff = {} THEN 0
            ELSE LET top == CHOOSE i \in diff : \A j \in diff : j <= i
                 IN IF a[top] < b[top] THEN -1 ELSE 1

RECURSIVE BMulSmallFrom(_, _, _, _)
BMulSmallFrom(a, k, i, carry) ==
    IF i > Len(a) THEN (IF carry = 0 THEN << >> ELSE <<carry>>)
    ELSE LET t == a[i] * k + carry
         IN <<t % Limb>> \o BMulSmallFrom(a, k, i + 1, t \div Limb)

\* a * k for 0 <= k < 2^15
BMulSmall(a, k) == IF k = 0 THEN << >> ELSE BMulSmallFrom(a, k, 1, 0)

RECURSIVE BMulFrom(_, _, _)
BMulFrom(a, b, i) ==
    IF i > Len(b) THEN << >>
    ELSE BAdd([j \in 1..(i - 1) |-> 0] \o BMulSmall(a, b[i]), BMulFrom(a, b, i + 1))

BMul(a, b) == BNorm(BMulFrom(a, b, 1))

\* a * 2^bits
BShl(a, bits) ==
    IF a = << >> THEN << >>
    ELSE [j \in 1..(bits \div 15) |-> 0] \o BMulSmall(a, Pow2(bits % 15))

\* floor(a / 2^bits)
BShr(a, bits) ==
    LET limbs == bits \div 15
        k == Pow2(bits % 15)
        hi == IF limbs >= Len(a) THEN << >> ELSE SubSeq(a, limbs + 1, Len(a))
    IN BNorm([i \in 1..Len(hi) |->
                 hi[i] \div k + (IF i < Len(hi) THEN (hi[i + 1] % k) * (Limb \div k) ELSE 0)])

RECURSIVE SmallBitLen(_)
SmallBitLen(n) == IF n = 0 THEN 0 ELSE 1 + SmallBitLen(n \div 2)

BitLen(a) == IF a = << >> THEN 0 ELSE 15 * (Len(a) - 1) + SmallBitLen(a[Len(a)])

\* bit i of a, bit 0 the lowest
BBit(a, i) == IF i \div 15 >= Len(a) THEN 0 ELSE (a[i \div 15 + 1] \div Pow2(i % 15)) % 2

BFromInt(n) == BNorm(<<n % Limb, (n \div Limb) % Limb, n \div (Limb * Limb)>>)

\* limb k of a, 0 above its length
BLimb(a, k) == IF k <= Len(a) THEN a[k] ELSE 0

\* long division in base 2^15 by a divisor b whose top limb is at least 2^14
\* (Knuth's algorithm D): r is the part of a above limb j reduced modulo b;
\* the quotient digit guessed from the two top limbs is at most 2 too large
RECURSIVE BDivModFrom(_, _, _, _)
BDivModFrom(a, b, j, r) ==
    IF j < 1 THEN [q |-> << >>, r |-> r]
    ELSE LET rr == BNorm(<<a[j]>> \o r)
             guess == (BLimb(rr, Len(b) + 1) * Limb + BLimb(rr, Len(b))) \div b[Len(b)]
             top == IF guess < Limb THEN guess ELSE Limb - 1
             digit == CHOOSE d \in 0..top :
                         /\ d >= top - 2
                         /\ BCmp(BMulSmall(b, d), rr) <= 0
                         /\ d < top => BCmp(BMulSmall(b, d + 1), rr) > 0
             rest == BDivModFrom(a, b, j - 1, BSub(rr, BMulSmall(b, digit)))
         IN [q |-> rest.q \o <<digit>>, r |-> rest.r]

\* [q, r] with a = q * b + r and 0 <= r < b, for b # 0
BDivMod(a, b) ==
    LET s == 15 - SmallBitLen(b[Len(b)])
        d == BDivModFrom(BShl(a, s), BShl(b, s), Len(BShl(a, s)), << >>)
    IN [q |-> BNorm(d.q), r |-> BShr(d.r, s)]

\* floor(sqrt(a)) by Newton's iteration from s >= sqrt(a)
RECURSIVE BSqrtFrom(_, _)
BSqrtFrom(a, s) ==
    LET t == BShr(BAdd(s, BDivMod(a, s).q), 1)
    IN IF BCmp(t, s) >= 0 THEN s ELSE BSqrtFrom(a, t)

BSqrt(a) == IF a = << >> THEN << >> ELSE BSqrtFrom(a, BShl(<<1>>, (BitLen(a) + 1) \div 2))

FZero == [sign |-> 0, m |-> << >>, e |-> 0]

\* sign * n * 2^e (and a little more when sticky) rounded to 53 bits, ties to even
FRound(sign, n, e, sticky) ==
    LET len == BitLen(n)
    IN IF n = << >> THEN FZero
       ELSE IF len <= 53 THEN [sign |-> sign, m |-> BShl(n, 53 - len), e |-> e - (53 - len)]
       ELSE LET sh == len - 53
                q == BShr(n, sh)
                guard == BBit(n, sh - 1)
                low == sticky \/ BCmp(BShl(BShr(n, sh - 1), sh - 1), n) # 0
                up == guard = 1 /\ (low \/ BBit(q, 0) = 1)
                m == IF up THEN BAdd(q, <<1>>) ELSE q
            IN IF BitLen(m) = 54 THEN [sign |-> sign, m |-> BShr(m, 1), e |-> e + sh + 1]
               ELSE [sign |-> sign, m |-> m, e |-> e + sh]

\* float(i) for an integer i
FFromInt(i) ==
    IF i = 0 THEN FZero
    ELSE FRound(IF i < 0 THEN -1 ELSE 1, BFromInt(IF i < 0 THEN -i ELSE i), 0, FALSE)

FNeg(x) == [x EXCEPT !.sign = -x.sign]

FAdd(x, y) ==
    IF x.sign = 0 THEN y
    ELSE IF y.sign = 0 THEN x
    ELSE LET e == IF x.e < y.e THEN x.e ELSE y.e
             a == BShl(x.m, x.e - e)
             b == BShl(y.m, y.e - e)
             c == BCmp(a, b)
         IN IF x.sign = y.sign THEN FRound(x.sign, BAdd(a, b), e, FALSE)
            ELSE IF c = 0 THEN FZero
            ELSE IF c > 0 THEN FRound(x.sign, BSub(a, b), e, FALSE)
            ELSE FRound(y.sign, BSub(b, a), e, FALSE)

FSub(x, y) == FAdd(x, FNeg(y))

FMul(x, y) ==
    IF x.sign = 0 \/ y.sign = 0 THEN FZero
    ELSE FRound(x.sign * y.sign, BMul(x.m, y.m), x.e + y.e, FALSE)

\* x / y for y # 0
FDiv(x, y) ==
    IF x.sign = 0 THEN FZero
    ELSE LET d == BDivMod(BShl(x.m, 55), y.m)
         IN FRound(x.sign * y.sign, d.q, x.e - y.e - 55, d.r # << >>)

\* sqrt(x) for x >= 0
FSqrt(x) ==
    IF x.sign = 0 THEN FZero
    ELSE LET k == IF (x.e - 57) % 2 = 0 THEN 57 ELSE 58
             a == BShl(x.m, k)
             s == BSqrt(a)
         IN FRound(1, s, (x.e - k) \div 2, BCmp(BMul(s, s), a) # 0)

FLt(x, y) == FSub(x, y).sign < 0

\* ---- detect_anomalies in binary64 (src/insights.py:96-114)

\* np.add.reduce over fewer than eight doubles: the first element plus the
\* running sum of the others
RECURSIVE FSumFrom(_, _, _)
FSumFrom(xs, i, acc) == IF i > Len(xs) THEN acc ELSE FSumFrom(xs, i + 1, FAdd(acc, xs[i]))

FSum(xs) == IF xs = << >> THEN FZero ELSE FAdd(xs[1], FSumFrom(xs, 2, FZero))

\* expenses["Amount"].mean(): nanops.nanmean, values.sum() / count
FMean(xs) == FDiv(FSum(xs), FFromInt(Len(xs)))

\* F(v), the double v being computed once however often F uses it
With(v, F(_)) == CHOOSE r \in {F(x) : x \in {v}} : TRUE

\* expenses["Amount"].std(ddof=0): nanops.nanvar and its square root,
\* avg = sum / count, sqr = (avg - values) ** 2, sqrt(sqr.sum() / count)
FStd(xs) ==
    With(FDiv(FSum(xs), FFromInt(Len(xs))), LAMBDA avg :
    With([i \in 1..Len(xs) |-> With(FSub(avg, xs[i]), LAMBDA d : FMul(d, d))], LAMBDA sqr :
    With(FSum(sqr), LAMBDA total :
    With(FDiv(total, FFromInt(Len(xs))), LAMBDA var : FSqrt(var)))))

\* expenses["zscore"] = (expenses["Amount"] - mean_spend) / std_spend, std_spend # 0
ZScores(xs, mean_spend, std_spend) ==
    [i \in 1..Len(xs) |-> With(FSub(xs[i], mean_spend), LAMBDA d : FDiv(d, std_spend))]

\* expenses[expenses["zscore"] < -2].sort_values("zscore"): the rows of the
\* spike frame, each with its score
SortedSpikes(expenses, z) ==
    LET below == {i \in 1..Len(z) : FLt(z[i], FFromInt(-2))}
        before(i, j) == FLt(z[i], z[j]) \/ (~FLt(z[j], z[i]) /\ i < j)
        place(i) == 1 + Cardinality({j \in below : before(j, i)})
    IN [k \in 1..Cardinality(below) |->
           LET i == CHOOSE i \in below : place(i) = k
           IN [row |-> expenses[i], zscore |-> z[i]]]

\* lines 108-114 for a non-empty frame of expenses
SpikeRows(expenses) ==
    With([i \in 1..Len(expenses) |-> FFromInt(expenses[i].Amount)], LAMBDA xs :
    With(FStd(xs), LAMBDA std_spend :
        IF std_spend.sign = 0 THEN << >>
        ELSE With(FMean(xs), LAMBDA mean_spend :
             With(ZScores(xs, mean_spend, std_spend), LAMBDA z : SortedSpikes(expenses, z)))))

\* the rows detect_anomalies scores: the outflows of the lookback window
\* (lines 100-104)
WindowExpenses(df, lookback_months) ==
    LET cutoff == SubMonths(MaxDate(df), lookback_months)
        window == SelectSeq(df, LAMBDA r : Ordinal(r.Date) >= Ordinal(cutoff))
    IN SelectSeq(window, LAMBDA r : r.Amount < 0)

\* the "spikes" entry of detect_anomalies(df, lookback_months), lines 96-114
detect_spikes(df, lookback_months) ==
    IF df = << >> THEN << >>
    ELSE LET expenses == WindowExpenses(df, lookback_months)
         IN IF expenses = << >> THEN << >> ELSE SpikeRows(expenses)

\* frames for the spike test, amounts in dollars: small purchases, one of them
\* possibly a little or a lot larger, one possibly older than a month
SpikeSlots == << [Date |-> [y |-> 2024, m |-> 11, d |-> 20], amounts |-> {<< >>, <<-4>>}],
                 [Date |-> [y |-> 2025, m |-> 1, d |-> 2],   amounts |-> {<< >>, <<-4>>}],
                 [Date |-> [y |-> 2025, m |-> 1, d |-> 3],   amounts |-> {<< >>, <<-4>>, <<9>>}],
                 [Date |-> [y |-> 2025, m |-> 1, d |-> 5],   amounts |-> {<< >>, <<-4>>, <<-7>>}],
                 [Date |-> [y |-> 2025, m |-> 1, d |-> 8],   amounts |-> {<< >>, <<-4>>}],
                 [Date |-> [y |-> 2025, m |-> 1, d |-> 9],   amounts |-> {<< >>, <<-4>>, <<-40>>}] >>

SpikeRow(k, amount) ==
    IF amount = << >> THEN << >>
    ELSE <<[Date |-> SpikeSlots[k].Date, Description |-> "Market",
            Amount |-> amount[1], Category |-> "Shopping"]>>

SpikeFrames ==
    { Concat([k \in 1..Len(SpikeSlots) |-> SpikeRow(k, pick[k])]) :
        pick \in { f \in [1..Len(SpikeSlots) ->
                             UNION {SpikeSlots[k].amounts : k \in 1..Len(SpikeSlots)}] :
                      \A k \in 1..Len(SpikeSlots) : f[k] \in SpikeSlots[k].amounts } }

\* app.py:1097, mcp_server.py:137: detect_anomalies(df, lookback_months=...)["spikes"]
DetectSpikes ==
    /\ fn = "none"
    /\ fn' = "detect_spikes"
    /\ ret' = detect_spikes(inp.df, inp.lookback_months)
    /\ UNCHANGED inp

\* ---- process_directory (src/process_transactions.py:99-112, 182-213)

\* model.predict: the pickled pipeline labels every description with one of
\* its classes
Labels == {"Dining", "Shopping"}

\* the statement files of a directory, in the order of their paths
BatchFrames ==
    { [columns |-> Layouts[2], rows |-> << <<ValidDate, <<"C", "a", "f", "e">>, <<"1", "2">>>> >>],
      [columns |-> Layouts[2], rows |-> << <<ValidDate, <<"C", "a", "f", "e">>, <<"-", "7">>>> >>],
      [columns |-> Layouts[2], rows |-> << <<<<"n", "/", "a">>, <<"C", "a", "f", "e">>, <<"1", "2">>>> >>],
      [columns |-> Layouts[2], rows |-> << >>],
      [columns |-> Layouts[6], rows |-> << <<ValidDate, <<"1", "2">>, <<"-", "7">>>> >>],
      [columns |-> Layouts[7], rows |-> << <<ValidDate, <<"C", "a", "f", "e">>, <<"1", "2">>>> >>] }

Files ==
    { [suffix |-> ".csv", readable |-> TRUE, frame |-> f] : f \in BatchFrames }
    \cup { [suffix |-> ".csv", readable |-> FALSE, frame |-> [columns |-> << >>, rows |-> << >>]],
           [suffix |-> ".txt", readable |-> TRUE, frame |-> [columns |-> << >>, rows |-> << >>]] }

MaxFiles == 3

Directories == UNION { [1..n -> Files] : n \in 1..MaxFiles }

\* glob of *.csv, *.xls, *.xlsx, sorted
Globbed(files) == SelectSeq(files, LAMBDA f : f.suffix \in {".csv", ".xls", ".xlsx"})

\* parse_statement(path), lines 99-112 and on: None for an unsupported type, a
\* file that cannot be read and an empty frame
parse_path(file) ==
    IF file.suffix \notin {".csv", ".xls", ".xlsx"} THEN [status |-> "None", out |-> << >>]
    ELSE IF ~file.readable THEN [status |-> "None", out |-> << >>]
    ELSE parse_statement(file.frame)

NoBatch == [files |-> << >>, all_rows |-> << >>, status |-> "running",
            error |-> "", categorized |-> {}]

\* lines 192-197: load the model, list the files
StartBatch ==
    /\ fn = "none"
    /\ fn' = "process_directory"
    /\ ret' = IF inp.model = "missing"
              THEN [NoBatch EXCEPT !.status = "raised", !.error = "FileNotFoundError"]
              ELSE [NoBatch EXCEPT !.files = Globbed(inp.files)]
    /\ UNCHANGED inp

\* lines 198-201: one turn of the loop over the files
ParseFile ==
    /\ fn = "process_directory"
    /\ ret.status = "running"
    /\ ret.files # << >>
    /\ LET df == parse_path(Head(ret.files))
       IN ret' = IF df.status = "KeyError"
                 THEN [ret EXCEPT !.status = "raised", !.error = "KeyError"]
                 ELSE IF df.status = "None"
                 THEN [ret EXCEPT !.files = Tail(ret.files)]
                 ELSE [ret EXCEPT !.files = Tail(ret.files),
                                  !.all_rows = Append(ret.all_rows, df.out)]
    /\ UNCHANGED <<fn, inp>>

\* lines 203-213: concat, drop_duplicates, sort_values("Date"), classify
FinishBatch ==
    /\ fn = "process_directory"
    /\ ret.status = "running"
    /\ ret.files = << >>
    /\ IF ret.all_rows = << >>
       THEN ret' = [ret EXCEPT !.status = "raised", !.error = "RuntimeError"]
       ELSE LET rows == Concat(ret.all_rows)
                combined == {rows[i] : i \in 1..Len(rows)}
                described == {r.Description : r \in combined}
            IN \E predict \in [described -> Labels] :
                 ret' = [ret EXCEPT !.status = "returned",
                                    !.categorized =
                                        { [Date |-> r.Date, Description |-> r.Description,
                                           Amount |-> r.Amount,
                                           Category |-> predict[r.Description]] : r \in combined }]
    /\ UNCHANGED <<fn, inp>>

\* ---- categorize_transaction (src/mcp_server.py:176-198)

\* the keyword table, in the order of the dict
keywords == << [key |-> <<"g", "r", "o", "c", "e", "r", "y">>, cat |-> "Groceries"],
               [key |-> <<"u", "b", "e", "r">>, cat |-> "Transport"],
               [key |-> <<"l", "y", "f", "t">>, cat |-> "Transport"],
               [key |-> <<"r", "e", "n", "t">>, cat |-> "Rent"],
               [key |-> <<"m", "o", "r", "t", "g", "a", "g", "e">>, cat |-> "Rent"],
               [key |-> <<"c", "o", "f", "f", "e", "e">>, cat |-> "Dining"],
               [key |-> <<"r", "e", "s", "t", "a", "u", "r", "a", "n", "t">>, cat |-> "Dining"],
               [key |-> <<"n", "e", "t", "f", "l", "i", "x">>, cat |-> "Subscriptions"] >>

\* the loop of lines 194-196: the first keyword of the table contained in the
\* lower-cased description, 0 if none is
KeywordMatch(lowered) ==
    LET hits == {k \in 1..Len(keywords) : Contains(lowered, keywords[k].key)}
    IN IF hits = {} THEN 0 ELSE CHOOSE k \in hits : \A h \in hits : k <= h

\* confidences in hundredths
categorize_transaction(description, model, predicted) ==
    IF model = "trained"
    THEN [status |-> "returned", category |-> predicted, confidence |-> 72]
    ELSE IF model = "corrupt"
    THEN [status |-> "raised", category |-> "", confidence |-> 0]
    ELSE LET k == KeywordMatch(Lower(description))
         IN IF k # 0
            THEN [status |-> "returned", category |-> keywords[k].cat, confidence |-> 35]
            ELSE [status |-> "returned", category |-> "Uncategorized", confidence |-> 10]

Words == { <<"U", "b", "e", "r">>, <<"C", "o", "f", "f", "e", "e">>, <<"R", "E", "N", "T">>, <<"C", "a", "f", "e">>, <<"n", "e", "t", "f", "l", "i", "x">> }

MaxWords == 3

RECURSIVE Join(_)
Join(ws) == IF Len(ws) = 1 THEN ws[1] ELSE ws[1] \o <<" ">> \o Join(Tail(ws))

RequestDescriptions == { Join(ws) : ws \in UNION { [1..n -> Words] : n \in 1..MaxWords } }

\* the model file: absent, present and loadable, present and not loadable
ModelFiles == {"missing", "trained", "corrupt"}

CategorizeTransaction ==
    /\ fn = "none"
    /\ fn' = "categorize_transaction"
    /\ \E predicted \in Labels :
          ret' = categorize_transaction(inp.description, inp.model, predicted)
    /\ UNCHANGED inp

\* ---- the column roles of a statement (src/process_transactions.py:114-121)

ColumnNames == { <<"D", "a", "t", "e">>, <<"T", "r", "a", "n", "s", "a", "c", "t", "i", "o", "n", " ", "D", "a", "t", "e">>, <<"P", "o", "s", "t", "e", "d">>, <<"M", "e", "m", "o">>,
                 <<"D", "e", "s", "c", "r", "i", "p", "t", "i", "o", "n">>, <<"M", "e", "r", "c", "h", "a", "n", "t">>, <<"A", "m", "o", "u", "n", "t">>, <<"D", "e", "b", "i", "t">>,
                 <<"B", "a", "l", "a", "n", "c", "e">> }

\* headers: up to three columns with different names, in any order
Headers ==
    { h \in UNION { [1..n -> ColumnNames] : n \in 1..3 } :
        \A i, j \in 1..Len(h) : i # j => h[i] # h[j] }

\* parse_statement, lines 115-121: the three roles; 0 stands for None
IdentifyColumns ==
    /\ fn = "none"
    /\ fn' = "identify_columns"
    /\ LET date_col == infer_column(inp, DATE_PATTERNS)
           desc_col == infer_column(inp, DESCRIPTION_PATTERNS)
           amount_col == infer_column(inp, AMOUNT_PATTERNS)
       IN ret' = [status |-> IF date_col = 0 \/ desc_col = 0 THEN "None" ELSE "resolved",
                  date_col |-> date_col,
                  desc_col |-> desc_col,
                  amount_col |-> amount_col]
    /\ UNCHANGED inp

-----------------------------------------------------------------------------
(* Part IV: the pages of the application (src/app.py)                       *)

\* st.session_state and the tables before anybody has signed in
NoPage == [session |-> 0, today |-> 0, cash_on_hand |-> 0, total_liabilities |-> 0,
           current_net_worth |-> 0, existing |-> << >>]

AppInit ==
    /\ loans = << >>
    /\ snapshots = {}
    /\ date_today = 1
    /\ now = 0
    /\ authenticated = [p \in Sessions |-> FALSE]
    /\ role = [p \in Sessions |-> "None"]
    /\ preview_as_family = [p \in Sessions |-> FALSE]
    /\ failed_attempts = [p \in Sessions |-> << >>]
    /\ lock_until = [p \in Sessions |-> << >>]
    /\ tab6 = NoPage

\* is_admin(), lines 445-446
is_admin(p) == role[p] = "admin" /\ ~preview_as_family[p]

\* ---- the net worth tab (src/app.py:706-749)

MaxDays == 2

MaxLoans == 2

Principals == {30}

EditedAmounts == {50}

\* sum(t.amount for t in all_txns)
RECURSIVE SumAmounts(_, _)
SumAmounts(rows, b) ==
    IF rows = {} THEN 0
    ELSE LET t == CHOOSE x \in rows : TRUE
         IN t.amount * CopiesIn(t, b) + SumAmounts(rows \ {t}, b)

cash_on_hand == SumAmounts(BagToSet(ledger), ledger)

\* sum(l.balance for l in all_loans)
total_liabilities == SumSeq([i \in 1..Len(loans) |-> loans[i].balance])

\* mutant of current_net_worth: the liabilities added
current_net_worth_sum == cash_on_hand + total_liabilities

current_net_worth == cash_on_hand - total_liabilities

\* mutant of Existing: the query finds nothing
ExistingNone(today) == << >>

\* db.query(NetWorthSnapshot).filter(NetWorthSnapshot.date == today).first():
\* << >> for None
Existing(today) ==
    IF \E s \in snapshots : s.date = today
    THEN <<CHOOSE s \in snapshots : s.date = today
                                    /\ \A o \in snapshots : o.date = today => s.id <= o.id>>
    ELSE << >>

\* the button "Capture Today's Snapshot", lines 735-749, in a run of the page
\* that computed the metrics of lines 718-724
Capture(p) ==
    /\ authenticated[p]
    /\ is_admin(p)
    /\ LET today == date_today
           existing == Existing(today)
       IN /\ snapshots' =
                 IF existing # << >>
                 THEN (snapshots \ {existing[1]})
                      \cup {[existing[1] EXCEPT !.total_assets = cash_on_hand,
                                                !.total_liabilities = total_liabilities,
                                                !.net_worth = current_net_worth]}
                 ELSE snapshots
                      \cup {[id |-> Cardinality(snapshots) + 1,
                             date |-> today,
                             total_assets |-> cash_on_hand,
                             total_liabilities |-> total_liabilities,
                             net_worth |-> current_net_worth]}
          /\ tab6' = [session |-> p, today |-> today, cash_on_hand |-> cash_on_hand,
                      total_liabilities |-> total_liabilities,
                      current_net_worth |-> current_net_worth,
                      existing |-> existing]
    /\ UNCHANGED <<loans, date_today, loginVars>>

\* the form "Add New Loan", lines 952-969
AddLoan(p, principal, is_shared) ==
    /\ authenticated[p]
    /\ is_admin(p)
    /\ Len(loans) < MaxLoans
    /\ loans' = Append(loans, [balance |-> principal, is_shared |-> is_shared])
    /\ tab6' = NoPage
    /\ UNCHANGED <<snapshots, date_today, loginVars>>

\* the button "Save Changes" of the transaction editor, lines 928-942, for
\* one edited row whose amount was changed
SaveChanges(p, t, amount) ==
    /\ authenticated[p]
    /\ is_admin(p)
    /\ BagIn(t, ledger)
    /\ ledger' = (ledger (-) SetToBag({t})) (+) SetToBag({[t EXCEPT !.amount = amount]})
    /\ UNCHANGED <<item_cursor, sessionVars, count, historyVars, last_fetch>>

\* the checkbox "Preview as family", line 588
TogglePreview(p) ==
    /\ authenticated[p]
    /\ role[p] = "admin"
    /\ preview_as_family' = [preview_as_family EXCEPT ![p] = ~preview_as_family[p]]
    /\ tab6' = NoPage
    /\ UNCHANGED <<loans, snapshots, date_today, authenticated, role, failed_attempts,
                   lock_until, now>>

\* midnight
NextDay ==
    /\ date_today < MaxDays
    /\ date_today' = date_today + 1
    /\ tab6' = NoPage
    /\ UNCHANGED <<loans, snapshots, loginVars>>

\* the ledgers the captures start from
StartLedgers == {EmptyBag} \cup {SeqToBag(<<NewTxn(t)>>) : t \in {r \in FeedRows : r.transaction_id = "a"}}

-----------------------------------------------------------------------------
\* ---- the login page (src/app.py:42-56, 312-341, 683-688)

\* the users table as seed_db.py fills it
Users == [admin |-> [password |-> "admin123", role |-> "admin"],
          brother |-> [password |-> "brother123", role |-> "family"]]

\* user and bcrypt.checkpw(password, user.password_hash), line 325
checkpw(username, password) ==
    username \in DOMAIN Users /\ Users[username].password = password

\* what is typed into the Email and Password fields
LoginForms == { [username |-> "admin", password |-> "admin123"],
                [username |-> "brother", password |-> "brother123"],
                [username |-> "admin", password |-> "brother123"],
                [username |-> "nobody", password |-> "admin123"] }

\* the values of time.time() at which the page runs, in seconds
ClockTimes == {60, 120, 180, 240, 270, 300, 330, 360}

\* mutant of Prune: stale attempts are kept
PruneNone(attempts, t) == attempts

\* line 320: [t for t in failed_attempts if now - t < 300]
Prune(attempts, t) == SelectSeq(attempts, LAMBDA a : t - a < 300)

\* line 314: lock_until and now < lock_until
LockActive(p, t) == lock_until[p] # << >> /\ t < lock_until[p][1]

\* one run of check_login in session p, started by a click on Sign In at
\* time t with the form as typed
CheckLogin(p, t, form) ==
    /\ ~authenticated[p]
    /\ t > now
    /\ now' = t
    /\ fn' = "check_login"
    /\ inp' = [session |-> p, username |-> form.username, password |-> form.password]
    /\ IF LockActive(p, t)
       THEN /\ ret' = FALSE
            /\ UNCHANGED <<authenticated, role, failed_attempts, lock_until>>
       ELSE IF checkpw(form.username, form.password)
       THEN /\ authenticated' = [authenticated EXCEPT ![p] = TRUE]
            /\ role' = [role EXCEPT ![p] = Users[form.username].role]
            /\ failed_attempts' = [failed_attempts EXCEPT ![p] = << >>]
            /\ lock_until' = [lock_until EXCEPT ![p] = << >>]
            /\ ret' = TRUE
       ELSE LET attempts == Append(Prune(failed_attempts[p], t), t)
            IN /\ failed_attempts' = [failed_attempts EXCEPT ![p] = attempts]
               /\ lock_until' = [lock_until EXCEPT ![p] =
                                    IF Len(attempts) >= 5 THEN <<t + 60>> ELSE @]
               /\ ret' = FALSE
               /\ UNCHANGED <<authenticated, role>>
    /\ tab6' = NoPage
    /\ UNCHANGED <<loans, snapshots, date_today, preview_as_family>>

\* the Logout button, lines 683-688
Logout(p) ==
    /\ authenticated[p]
    /\ authenticated' = [authenticated EXCEPT ![p] = FALSE]
    /\ preview_as_family' = [preview_as_family EXCEPT ![p] = FALSE]
    /\ role' = [role EXCEPT ![p] = "None"]
    /\ fn' = "logout"
    /\ inp' = [session |-> p]
    /\ ret' = << >>
    /\ tab6' = NoPage
    /\ UNCHANGED <<loans, snapshots, date_today, failed_attempts, lock_until, now>>

\* ---- what the pages show to a session (src/app.py:445-475, 690-730,
\* ---- 866-873, 796-812, 973-982)

\* a database: rows of transactions, loans, fixed_expenses, category_budgets
TransactionRows == [Amount : {-40, 100}, IsShared : BOOLEAN]

LoanRows == [balance : {30}, min_payment : {5}, is_shared : BOOLEAN]

FixedExpenseRows == [amount : {20}, is_shared : BOOLEAN]

BudgetRows == [category : {"Rent"}, monthly_limit : {200}, is_shared : BOOLEAN]

\* a table with no row or one
UpTo(rows) == {<< >>} \cup {<<r>> : r \in rows}

Databases == [transactions : UpTo(TransactionRows), loans : UpTo(LoanRows),
              fixed_expenses : UpTo(FixedExpenseRows), budgets : UpTo(BudgetRows)]

\* load_data(), lines 449-475: the rows of the frame
load_data(db, admin) ==
    IF admin THEN db.transactions
    ELSE SelectSeq(db.transactions, LAMBDA t : t.IsShared)

\* one run of the page script for a signed-in session: the values it shows
PageScript(db, admin) ==
    LET df == load_data(db, admin)
        visible_budgets == SelectSeq(db.budgets, LAMBDA b : admin \/ b.is_shared)
        visible_loans == SelectSeq(db.loans, LAMBDA l : admin \/ l.is_shared)
        visible_expenses == SelectSeq(db.fixed_expenses, LAMBDA x : admin \/ x.is_shared)
        all_txns == [i \in 1..Len(db.transactions) |-> db.transactions[i].Amount]
        all_loans == [i \in 1..Len(db.loans) |-> db.loans[i].balance]
    IN [df |-> df,
        budgets |-> visible_budgets,
        \* tab1, lines 866-873: << >> when "No data available."
        fixed_total_val |->
            IF df = << >> THEN << >>
            ELSE <<SumSeq([i \in 1..Len(db.fixed_expenses) |-> db.fixed_expenses[i].amount])>>,
        \* tab3, lines 973-982
        loans |-> visible_loans,
        total_debt |-> SumSeq([i \in 1..Len(visible_loans) |-> visible_loans[i].balance]),
        total_pmt |-> SumSeq([i \in 1..Len(visible_loans) |-> visible_loans[i].min_payment]),
        \* tab4, lines 796-812
        expenses |-> visible_expenses,
        total_fixed |-> SumSeq([i \in 1..Len(visible_expenses) |-> visible_expenses[i].amount]),
        \* tab6, lines 718-730
        assets |-> SumSeq(all_txns),
        liabilities |-> SumSeq(all_loans),
        net_worth |-> SumSeq(all_txns) - SumSeq(all_loans)]

\* the page script run by session 1 on two databases
RenderPages ==
    /\ fn = "none"
    /\ authenticated[1]
    /\ fn' = "pages"
    /\ ret' = [a |-> PageScript(inp.a, is_admin(1)), b |-> PageScript(inp.b, is_admin(1))]
    /\ UNCHANGED inp

-----------------------------------------------------------------------------
(* Specifications                                                           *)

LoanInit ==
    /\ args = NoArgs
    /\ monthly_rate = Zero
    /\ total_payment = Zero
    /\ schedule = << >>
    /\ curr_balance = Zero
    /\ month = 0
    /\ pc = "idle"
    /\ calls = 0
    /\ results = {}

Init == LoanInit /\ SyncInit /\ NoCall /\ AppInit

\* one call per behaviour, over the wide argument set
FirstCall == \E a \in LoanArgs : calls = 0 /\ Call(a)

Next == (FirstCall \/ Step \/ Return) /\ UNCHANGED <<syncVars, callVars, appVars>>

Spec == Init /\ [][Next]_vars

\* several calls in a row, over the narrow argument set
AnyCall == \E a \in RunArgs : Call(a)

NextRuns == (AnyCall \/ Step \/ Return) /\ UNCHANGED <<syncVars, callVars, appVars>>

SpecRuns == Init /\ [][NextRuns]_vars

\* sync runs of the sessions and uploads, interleaved on one database
SyncStep(p) ==
    \/ StartSync(p)
    \/ FetchPage(p)
    \/ FetchRaises(p)
    \/ ProcessRow(p)
    \/ CommitPage(p)
    \/ CommitRaises(p)
    \/ FinishSync(p)
    \/ FinishRaises(p)

AnyUpload == \E batch \in Batches : Upload(batch)

NextSync == ((\E p \in Sessions : SyncStep(p)) \/ AnyUpload)
            /\ UNCHANGED <<loanVars, callVars, appVars>>

SpecSync == Init /\ [][NextSync]_vars

\* predict_spending applied to one frame
InitForecast ==
    /\ LoanInit /\ SyncInit /\ AppInit
    /\ fn = "none"
    /\ inp \in ForecastFrames
    /\ ret = << >>

NextForecast == PredictSpending /\ UNCHANGED <<loanVars, syncVars, appVars>>

SpecForecast == InitForecast /\ [][NextForecast]_vars

\* detect_anomalies applied to one frame
InitAnomalies ==
    /\ LoanInit /\ SyncInit /\ AppInit
    /\ fn = "none"
    /\ inp \in [df : AnomalyFrames, lookback_months : LookbackMonths]
    /\ ret = << >>

NextAnomalies == DetectAnomalies /\ UNCHANGED <<loanVars, syncVars, appVars>>

SpecAnomalies == InitAnomalies /\ [][NextAnomalies]_vars
\* the spike test of detect_anomalies, in binary64, applied to one frame
InitSpikes ==
    /\ fn = "none"
    /\ ret = << >>
    /\ inp \in [df : SpikeFrames, lookback_months : LookbackMonths]
    /\ LoanInit /\ SyncInit /\ AppInit

NextSpikes == DetectSpikes /\ UNCHANGED <<loanVars, syncVars, appVars>>

SpecSpikes == InitSpikes /\ [][NextSpikes]_vars


\* one run of the page: the budget status and the alerts made from it
InitBudget ==
    /\ LoanInit /\ SyncInit /\ AppInit
    /\ fn = "none"
    /\ inp \in [df : BudgetFrames, budgets : BudgetLists, today : Todays]
    /\ ret = << >>

NextBudget ==
    (ComputeBudgetStatus \/ SummarizeBudgetWatch \/ DashboardBudgets \/ TransactionLog)
    /\ UNCHANGED <<loanVars, syncVars, appVars>>

SpecBudget == InitBudget /\ [][NextBudget]_vars

\* forecast_cash_flow applied to one frame
InitCashFlow ==
    /\ LoanInit /\ SyncInit /\ AppInit
    /\ fn = "none"
    /\ inp \in [df : CashFrames, recurring_expenses : RecurringLists, horizons : HorizonLists]
    /\ ret = << >>

NextCashFlow == ForecastCashFlow /\ UNCHANGED <<loanVars, syncVars, appVars>>

SpecCashFlow == InitCashFlow /\ [][NextCashFlow]_vars

\* predict_cash_balance applied to one ledger
InitBalance ==
    /\ LoanInit /\ SyncInit /\ AppInit
    /\ fn = "none"
    /\ inp \in [df : CashFrames, fixed_expenses : RecurringLists, period_days : PeriodDays]
    /\ ret = << >>

NextBalance == PredictCashBalance /\ UNCHANGED <<loanVars, syncVars, appVars>>

SpecBalance == InitBalance /\ [][NextBalance]_vars

\* parse_statement applied to one statement file
InitParse ==
    /\ LoanInit /\ SyncInit /\ AppInit
    /\ fn = "none"
    /\ inp \in {Frame(statement) : statement \in Statements}
    /\ ret = << >>

NextParse == ParseStatement /\ UNCHANGED <<loanVars, syncVars, appVars>>

SpecParse == InitParse /\ [][NextParse]_vars
\* the column roles of one header
InitColumns ==
    /\ LoanInit /\ SyncInit /\ AppInit
    /\ fn = "none"
    /\ inp \in Headers
    /\ ret = << >>

NextColumns == IdentifyColumns /\ UNCHANGED <<loanVars, syncVars, appVars>>

SpecColumns == InitColumns /\ [][NextColumns]_vars
\* process_directory applied to one directory
InitBatch ==
    /\ LoanInit /\ SyncInit /\ AppInit
    /\ fn = "none"
    /\ inp \in [files : Directories, model : {"trained", "missing"}]
    /\ ret = << >>

NextBatch == (StartBatch \/ ParseFile \/ FinishBatch) /\ UNCHANGED <<loanVars, syncVars, appVars>>

SpecBatch == InitBatch /\ [][NextBatch]_vars
\* one request to the categorize_transaction tool
InitCategorize ==
    /\ LoanInit /\ SyncInit /\ AppInit
    /\ fn = "none"
    /\ inp \in [description : RequestDescriptions, model : ModelFiles]
    /\ ret = << >>

NextCategorize == CategorizeTransaction /\ UNCHANGED <<loanVars, syncVars, appVars>>

SpecCategorize == InitCategorize /\ [][NextCategorize]_vars
\* signed-in sessions on the net worth tab
InitSnapshot ==
    /\ LoanInit /\ NoCall
    /\ \E l \in StartLedgers :
          /\ ledger = l
          /\ item_cursor = NoCursor
          /\ at = [p \in Sessions |-> "idle"]
          /\ cursor = [p \in Sessions |-> NoCursor]
          /\ latest_cursor = [p \in Sessions |-> NoCursor]
          /\ has_more = [p \in Sessions |-> FALSE]
          /\ added = [p \in Sessions |-> << >>]
          /\ pending = [p \in Sessions |-> << >>]
          /\ total_new = [p \in Sessions |-> 0]
          /\ raised = [p \in Sessions |-> "none"]
          /\ count = 0
          /\ ops = 0
          /\ synced = {}
          /\ run = [p \in Sessions |-> NoRun]
          /\ uploaded = {}
          /\ repeat = FALSE
          /\ last_fetch = NoFetch
    /\ loans = << >>
    /\ snapshots = {}
    /\ date_today = 1
    /\ now = 0
    /\ authenticated = [p \in Sessions |-> TRUE]
    /\ role \in [Sessions -> {"admin", "family"}]
    /\ preview_as_family = [p \in Sessions |-> FALSE]
    /\ failed_attempts = [p \in Sessions |-> << >>]
    /\ lock_until = [p \in Sessions |-> << >>]
    /\ tab6 = NoPage

SnapshotStep(p) ==
    \/ Capture(p) /\ UNCHANGED <<loanVars, syncVars, callVars>>
    \/ (\E principal \in Principals : AddLoan(p, principal, FALSE))
       /\ UNCHANGED <<loanVars, syncVars, callVars>>
    \/ (\E t \in BagToSet(ledger), amount \in EditedAmounts : SaveChanges(p, t, amount))
       /\ tab6' = NoPage
       /\ UNCHANGED <<loanVars, callVars, loans, snapshots, date_today, loginVars>>
    \/ TogglePreview(p) /\ UNCHANGED <<loanVars, syncVars, callVars>>

NextSnapshot ==
    \/ \E p \in Sessions : SnapshotStep(p)
    \/ NextDay /\ UNCHANGED <<loanVars, syncVars, callVars>>

SpecSnapshot == InitSnapshot /\ [][NextSnapshot]_vars
\* the records marked shared
Shared(db) ==
    [transactions |-> SelectSeq(db.transactions, LAMBDA t : t.IsShared),
     loans |-> SelectSeq(db.loans, LAMBDA l : l.is_shared),
     fixed_expenses |-> SelectSeq(db.fixed_expenses, LAMBDA x : x.is_shared),
     budgets |-> SelectSeq(db.budgets, LAMBDA b : b.is_shared)]

\* session 1, signed in as admin, as admin previewing as family or as family,
\* looks at two databases with the same shared records
InitPages ==
    /\ LoanInit /\ SyncInit
    /\ fn = "none"
    /\ inp \in {pair \in [a : Databases, b : Databases] : Shared(pair.a) = Shared(pair.b)}
    /\ ret = << >>
    /\ loans = << >>
    /\ snapshots = {}
    /\ date_today = 1
    /\ now = 0
    /\ authenticated = [p \in Sessions |-> p = 1]
    /\ role \in {[p \in Sessions |-> IF p = 1 THEN r ELSE "None"] : r \in {"admin", "family"}}
    /\ preview_as_family \in {[p \in Sessions |-> p = 1 /\ v] : v \in BOOLEAN}
    /\ role[1] = "family" => ~preview_as_family[1]
    /\ failed_attempts = [p \in Sessions |-> << >>]
    /\ lock_until = [p \in Sessions |-> << >>]
    /\ tab6 = NoPage

NextPages == RenderPages /\ UNCHANGED <<loanVars, syncVars, appVars>>

SpecPages == InitPages /\ [][NextPages]_vars

\* the login page: sign-in clicks and logouts of the sessions
InitLogin == LoanInit /\ SyncInit /\ NoCall /\ AppInit

NextLogin ==
    /\ \/ \E p \in Sessions, t \in ClockTimes, form \in LoginForms : CheckLogin(p, t, form)
       \/ \E p \in Sessions : Logout(p)
    /\ UNCHANGED <<loanVars, syncVars>>

SpecLogin == InitLogin /\ [][NextLogin]_vars







-----------------------------------------------------------------------------
(* Claims about simulate_payoff                                             *)

Last(s) == s[Len(s)]

RequiredPlusExtra == Rat(args.monthly_payment + args.extra_payment)

FirstInterest == RDivInt(RDivInt(RMul(Rat(args.balance), Rat(args.rate_apr)), 12), 100)

\* balance outstanding before the payment of row k
BalanceBefore(k) == IF k = 1 THEN Rat(args.balance) ELSE schedule[k - 1].Balance

StrictlyDecreasing ==
    \A k \in 1..Len(schedule) : RLt(schedule[k].Balance, BalanceBefore(k))

\* B > 0, R >= 0, P > B*R/12/100
AmortizingTerms ==
    /\ pc # "idle"
    /\ args.balance > 0
    /\ args.rate_apr >= 0
    /\ RLt(FirstInterest, RequiredPlusExtra)

\* C1 as stated: under amortizing terms the recorded balance strictly decreases
\* every month, there are at most 1200 rows, the last row of the returned
\* schedule has balance 0, and the loop never stops with a balance still owed
\* (the 1200-month cap is never the reason it stops).
C1_PaysOffWithinCap ==
    AmortizingTerms =>
        /\ StrictlyDecreasing
        /\ Len(schedule) <= MonthCap
        /\ (pc = "loop" /\ ~LoopCond) => ~RLt(Zero, curr_balance)
        /\ (pc = "done" /\ schedule # << >>) => Last(schedule).Balance = Zero

\* C1 amended: under amortizing terms the recorded balance strictly decreases
\* every month, there are at most 1200 rows, and the last row of the returned
\* schedule has balance 0 unless the schedule has exactly 1200 rows (the cap
\* stopped the loop).
C1_PaysOffOrHitsCap ==
    AmortizingTerms =>
        /\ StrictlyDecreasing
        /\ Len(schedule) <= MonthCap
        /\ (pc = "loop" /\ ~LoopCond) => (~RLt(Zero, curr_balance) \/ month = MonthCap)
        /\ (pc = "done" /\ schedule # << >>) =>
               (Last(schedule).Balance = Zero \/ Len(schedule) = MonthCap)

\* C1 witness: an interest-bearing loan paid off over several months.
C1_Witness ==
    /\ AmortizingTerms
    /\ args.rate_apr > 0
    /\ pc = "done"
    /\ Len(schedule) >= 3
    /\ Last(schedule).Balance = Zero

\* C2 as stated (for a positive balance): the returned schedule is empty
\* exactly when required + extra <= balance * monthly_rate.
C2_EmptyIffPaymentTooLow ==
    (pc = "done" /\ args.balance > 0) =>
        ((schedule = << >>) <=> RLeq(RequiredPlusExtra, FirstInterest))

\* C3: every non-final row k has interest = balance_{k-1} * APR/100/12,
\* principal = (required + extra) - interest, balance = balance_{k-1} - principal
\* and month index k; balance 10000, APR 12, payment 300 gives month 1
\* interest 100, principal 200, balance 9800.
C3_RowFormulas ==
    /\ \A k \in 1..Len(schedule) : schedule[k].Month = k
    /\ \A k \in 1..(Len(schedule) - 1) :
          LET before == BalanceBefore(k)
              interest == RDivInt(RDivInt(RMul(before, Rat(args.rate_apr)), 100), 12)
              principal == RSub(RequiredPlusExtra, interest)
          IN /\ schedule[k].Interest = interest
             /\ schedule[k].Principal = principal
             /\ schedule[k].Balance = RSub(before, principal)
    /\ (/\ args = [balance |-> 10000, rate_apr |-> 12, monthly_payment |-> 300,
                   extra_payment |-> 0]
        /\ Len(schedule) >= 1) =>
          /\ schedule[1].Interest = Rat(100)
          /\ schedule[1].Principal = Rat(200)
          /\ schedule[1].Balance = Rat(9800)

\* C3 witness: the scenario loan with its first row followed by another.
C3_Witness ==
    /\ args = [balance |-> 10000, rate_apr |-> 12, monthly_payment |-> 300,
               extra_payment |-> 0]
    /\ Len(schedule) >= 2

\* C4: in every row the principal does not exceed the balance outstanding
\* before the payment, TotalPayment = Interest + Principal and the recorded
\* balance is >= 0; only the final row may have TotalPayment below
\* required + extra.
C4_RowInvariants ==
    \A k \in 1..Len(schedule) :
        /\ RLeq(schedule[k].Principal, BalanceBefore(k))
        /\ schedule[k].TotalPayment = RAdd(schedule[k].Interest, schedule[k].Principal)
        /\ RLeq(Zero, schedule[k].Balance)
        /\ RLeq(schedule[k].TotalPayment, RequiredPlusExtra)
        /\ k < Len(schedule) => schedule[k].TotalPayment = RequiredPlusExtra

\* C4 witness: a schedule whose final payment was clamped to the balance left.
C4_Witness ==
    /\ pc = "done"
    /\ Len(schedule) >= 2
    /\ RLt(Last(schedule).TotalPayment, RequiredPlusExtra)
    /\ Last(schedule).Principal = BalanceBefore(Len(schedule))

\* C5: a call returns the schedule that every earlier call with the same
\* arguments returned, whatever was called in between.
C5_Deterministic ==
    pc = "done" => \A r \in results : r.args = args => r.schedule = schedule

\* C5 witness: a repeated call, with another call in between, that returned a
\* multi-row schedule ending in a clamped payment.
C5_Witness ==
    /\ pc = "done"
    /\ calls = 3
    /\ Len(schedule) >= 2
    /\ RLt(Last(schedule).TotalPayment, RequiredPlusExtra)
    /\ \E r \in results : r.args = args
    /\ \E r \in results : r.args # args /\ r.schedule # << >>

-----------------------------------------------------------------------------
(* Claims about reconciliation and external sync                            *)

Stored(id) == \E r \in BagToSet(ledger) : r.plaid_transaction_id = id

\* C6: a sync run whose pages carry only identifiers that earlier, returned
\* runs delivered adds no Transaction (nothing is handed to the session,
\* nothing is stored, no duplicate aborts it) and returns 0; a statement batch
\* uploaded a second time inserts no row and returns 0.
C6_Idempotent ==
    /\ \A p \in Sessions :
          (at[p] # "idle" /\ run[p].replay) =>
              /\ total_new[p] = 0
              /\ pending[p] = << >>
              /\ run[p].stored = 0
              /\ raised[p] # "IntegrityError"
    /\ repeat => count = 0

\* C6 witness: a run that returned after being served an identifier again.
C6_Witness ==
    \E p \in Sessions :
        /\ at[p] = "done"
        /\ run[p].replay
        /\ run[p].ids # {}
        /\ \A id \in run[p].ids : Stored(id)

\* C7 as stated: at most one Transaction per non-null external identifier, and
\* a fetched row whose identifier is already present is skipped (never handed
\* to the session next to a row with the same identifier) without a duplicate
\* aborting the sync.
C7_OnePerIdSkippedNoAbort ==
    /\ UniqueIds(ledger)
    /\ \A p \in Sessions :
          /\ UniqueIds(SeqToBag(pending[p]))
          /\ raised[p] # "IntegrityError"

\* C8: the stored cursor changes only in the step that ends a run normally, to
\* that run's latest cursor, when every page the run fetched has been committed
\* and the identifiers it fetched are in the ledger; a step that raises leaves
\* the stored cursor alone.
C8_CursorOnlyAfterCommits ==
    [][ /\ item_cursor' # item_cursor =>
              \E p \in Sessions :
                  /\ at[p] = "fetch" /\ at'[p] = "done"
                  /\ raised'[p] = "none"
                  /\ item_cursor' = latest_cursor[p]
                  /\ pending[p] = << >>
                  /\ run[p].committed = run[p].fetched
                  /\ \A id \in run[p].ids : Stored(id)
        /\ \A p \in Sessions : raised'[p] # raised[p] => item_cursor' = item_cursor
      ]_vars

\* C8 witness: a run that stored the rows of one page and then raised, with
\* the stored cursor still the one from before the run.
C8_Witness ==
    \E p \in Sessions :
        /\ at[p] = "failed"
        /\ run[p].committed >= 1
        /\ run[p].stored >= 1
        /\ latest_cursor[p] # NoCursor
        /\ item_cursor = NoCursor

\* the step that requests a further page of a run
RequestsNextPage(p) == at[p] = "fetch" /\ at'[p] = "rows" /\ run[p].fetched >= 1

\* C9 as stated: page N+1 is requested only after the transactions of page N
\* and the cursor advance from page N have been committed to storage.
C9_NextPageAfterRowsAndCursor ==
    [][ \A p \in Sessions :
            RequestsNextPage(p) =>
                /\ pending[p] = << >>
                /\ run[p].committed = run[p].fetched
                /\ item_cursor = cursor[p]
      ]_vars

\* C9 amended: page N+1 is requested only after the transactions of page N
\* have been committed; the cursor advance is kept in memory and stored once,
\* by the step that ends the run after its last page.
C9_NextPageAfterRows ==
    [][ /\ \A p \in Sessions :
              RequestsNextPage(p) =>
                  /\ pending[p] = << >>
                  /\ run[p].committed = run[p].fetched
                  /\ \A id \in run[p].ids : Stored(id)
        /\ item_cursor' # item_cursor =>
              \E p \in Sessions : at[p] = "fetch" /\ ~has_more[p] /\ at'[p] = "done"
      ]_vars

\* C9 witness: a second page fetched after the first page's rows were stored,
\* with the stored cursor behind the cursor of the request.
C9_Witness ==
    \E p \in Sessions :
        /\ at[p] = "rows"
        /\ run[p].fetched = 2
        /\ run[p].stored >= 1
        /\ item_cursor # cursor[p]

PlaidRows(b) == {r \in BagToSet(b) : r.source = "plaid"}

\* C10: every transaction handed to the session or stored by external sync
\* has the negated external amount: a positive external amount is stored
\* negative, a negative one positive, a missing one as 0.
C10_AmountNegated ==
    \A r \in PlaidRows(ledger) \cup UNION {PlaidRows(SeqToBag(pending[p])) : p \in Sessions} :
        IF r.ext = << >>
        THEN r.amount = 0
        ELSE /\ r.amount + r.ext[1] = 0
             /\ r.ext[1] > 0 => r.amount < 0
             /\ r.ext[1] < 0 => r.amount > 0

\* C10 witness: an outflow, an inflow and a row without amount, all stored.
C10_Witness ==
    /\ \E r \in PlaidRows(ledger) : r.ext # << >> /\ r.ext[1] > 0
    /\ \E r \in PlaidRows(ledger) : r.ext # << >> /\ r.ext[1] < 0
    /\ \E r \in PlaidRows(ledger) : r.ext = << >>

-----------------------------------------------------------------------------
(* Claims about predict_spending                                            *)

\* months of the frame that have an outflow
OutflowMonths(df) == {MonthOf(df[i].Date) : i \in {j \in 1..Len(df) : df[j].Amount < 0}}

\* total outflow of month mo, as a magnitude
OutflowOf(df, mo) ==
    LET rows == SelectSeq(df, LAMBDA r : r.Amount < 0 /\ MonthOf(r.Date) = mo)
    IN -SumSeq([i \in 1..Len(rows) |-> rows[i].Amount])

\* the k-th month with outflows counted from the last one (k = 0 is the last)
RECURSIVE FromLast(_, _)
FromLast(months, k) ==
    LET top == CHOOSE x \in months : \A z \in months : z <= x
    IN IF k = 0 THEN top ELSE FromLast(months \ {top}, k - 1)

\* C12: with fewer than 2 months that have outflows forecast_value and
\* forecast_month are both None; otherwise forecast_value is a number and
\* forecast_month is the calendar month after the last month with outflows,
\* December being followed by January of the next year.
C12_InsufficientOrNextMonth ==
    fn = "predict_spending" =>
        LET months == OutflowMonths(inp)
        IN IF Cardinality(months) < 2
           THEN ret.forecast_value = << >> /\ ret.forecast_month = << >>
           ELSE LET after == FromLast(months, 0) + 1
                IN /\ ret.forecast_value # << >>
                   /\ ret.forecast_month = <<[y |-> after \div 12, m |-> (after % 12) + 1]>>
                   /\ ret.forecast_month[1].m \in 1..12

\* C12 witness: a forecast made from a frame whose last month with outflows is
\* December 2024, labelled January 2025, although the frame has a later month
\* with inflows only.
C12_Witness ==
    /\ fn = "predict_spending"
    /\ FromLast(OutflowMonths(inp) \cup {0}, 0) = 2024 * 12 + 11
    /\ \E i \in 1..Len(inp) : MonthOf(inp[i].Date) > 2024 * 12 + 11
    /\ ret.forecast_month = <<[y |-> 2025, m |-> 1]>>

\* the forecast for n >= 2 monthly totals with the trend given
ForecastWith(months, w, trend) ==
    LET total(k) == OutflowOf(inp, FromLast(months, k))
        mean == Frac(SumSeq([k \in 1..w |-> total(k - 1)]), w)
    IN RAdd(RMul(Frac(3, 5), mean),
            RMul(Frac(2, 5), RMax(RAdd(Rat(total(0)), trend), Zero)))

\* C13 as stated: with n >= 2 monthly totals and w = min(3, n) the forecast is
\* 0.6 * mean(last w totals) + 0.4 * max(last total + trend, 0), trend being
\* the mean of the w-1 deltas between the months of the window; the forecast
\* is never negative.
C13_TrendWithinWindow ==
    (fn = "predict_spending" /\ Cardinality(OutflowMonths(inp)) >= 2) =>
        LET months == OutflowMonths(inp)
            w == Min(3, Cardinality(months))
            trend == Frac(OutflowOf(inp, FromLast(months, 0))
                          - OutflowOf(inp, FromLast(months, w - 1)), w - 1)
        IN /\ ret.forecast_value = <<ForecastWith(months, w, trend)>>
           /\ RLeq(Zero, ret.forecast_value[1])

\* C13 amended: the trend is the mean of the month-over-month deltas of the
\* last w months, each against the month before it: the w-1 deltas inside the
\* window when n = w, and w deltas, the first one taken against the month
\* before the window, when n > w.
C13_TrendOfLastDeltas ==
    (fn = "predict_spending" /\ Cardinality(OutflowMonths(inp)) >= 2) =>
        LET months == OutflowMonths(inp)
            n == Cardinality(months)
            w == Min(3, n)
            k == IF n > w THEN w ELSE w - 1
            trend == Frac(OutflowOf(inp, FromLast(months, 0))
                          - OutflowOf(inp, FromLast(months, k)), k)
        IN /\ ret.forecast_value = <<ForecastWith(months, w, trend)>>
           /\ RLeq(Zero, ret.forecast_value[1])

\* C13 witness: a forecast from four months of outflows in which the delta
\* into the window differs from the deltas inside it and the totals fall so
\* fast that the trend term is floored at zero.
C13_Witness ==
    /\ fn = "predict_spending"
    /\ LET months == OutflowMonths(inp)
       IN /\ Cardinality(months) >= 4
          /\ OutflowOf(inp, FromLast(months, 3)) # OutflowOf(inp, FromLast(months, 2))
          /\ OutflowOf(inp, FromLast(months, 3)) > 4 * OutflowOf(inp, FromLast(months, 0))
          /\ ret.forecast_value # << >>

-----------------------------------------------------------------------------
(* Claims about detect_anomalies                                            *)

\* the outflow rows of the lookback window, in frame order
WindowOutflows ==
    LET df == inp.df
        last == MaxDate(df)
        back == MonthOf(last) - inp.lookback_months
        cutoff == [y |-> back \div 12, m |-> (back % 12) + 1, d |-> last.d]
        inside(r) == \/ MonthOf(r.Date) > back
                     \/ MonthOf(r.Date) = back /\ r.Date.d >= cutoff.d
    IN SelectSeq(df, LAMBDA r : r.Amount < 0 /\ inside(r))

Range(s) == {s[i] : i \in 1..Len(s)}

\* n*x - S < 0 and (n*x - S)^2 > 4 * (n*Q - S^2): the z-score of x is below -2
\* in a window of n amounts with sum S and sum of squares Q
ZBelowMinusTwo(x, n, S, Q) == n * x - S < 0 /\ (n * x - S) * (n * x - S) > 4 * (n * Q - S * S)

ZSquaredFloor(z) ==
    LET sq == RMul(z.dev, z.dev)
    IN (sq.n * z.var.d) \div (sq.d * z.var.n)

\* the window holds one outflow of $5000 and others that average $50 with a
\* population spread of $10 (amounts are in units of ten dollars)
OthersOf(E) == SelectSeq(E, LAMBDA r : r.Amount # -500)

SingleLargeExpense ==
    /\ fn = "detect_anomalies"
    /\ inp.df # << >>
    /\ LET E == WindowOutflows
           others == OthersOf(E)
           N == Len(others)
       IN /\ Len(E) = N + 1
          /\ N >= 1
          /\ SumSeq([i \in 1..N |-> others[i].Amount]) = -5 * N
          /\ SumSeq([i \in 1..N |-> (others[i].Amount + 5) * (others[i].Amount + 5)]) = N

LargeExpenseSpikes == {z \in Range(ret.spikes) : z.row.Amount = -500}

DaysApart(a, b) == IF a.y = b.y /\ a.m = b.m THEN Abs(a.d - b.d) ELSE 8

\* C16: the duplicate candidates are exactly the outflow rows of the window
\* whose (description, absolute amount) group has at least 2 members and at
\* most 7 days between its earliest and latest date, whether or not there are
\* spikes; two $50 "Coffee Shop" outflows 2 days apart are both reported.
C16_DuplicatesWithinWeek ==
    (fn = "detect_anomalies" /\ inp.df # << >>) =>
        LET E == Range(WindowOutflows)
            group(r) == {x \in E : x.Description = r.Description
                                    /\ Abs(x.Amount) = Abs(r.Amount)}
            expected == {r \in E : /\ Cardinality(group(r)) >= 2
                                   /\ \A x, z \in group(r) : DaysApart(x.Date, z.Date) <= 7}
        IN /\ Range(ret.duplicates) = expected
           /\ Len(ret.duplicates) = Cardinality(expected)
           /\ \A x, z \in E :
                 (/\ x.Description = "Coffee Shop" /\ z.Description = "Coffee Shop"
                  /\ x.Amount = -5 /\ z.Amount = -5
                  /\ DaysApart(x.Date, z.Date) = 2
                  /\ Cardinality(group(x)) = 2)
                 => {x, z} \subseteq Range(ret.duplicates)

\* C16 witness: two $50 "Coffee Shop" outflows 2 days apart and nothing else
\* in the window: no variance, no spike, both rows reported.
C16_Witness ==
    /\ fn = "detect_anomalies"
    /\ Len(inp.df) = 2
    /\ ret.spikes = << >>
    /\ Len(ret.duplicates) = 2
    /\ \A i \in 1..2 : /\ ret.duplicates[i].Description = "Coffee Shop"
                        /\ ret.duplicates[i].Amount = -5


\* C27: detect_anomalies reports a spike only when the lookback window holds
\* at least six outflows; with five or fewer no row has a z-score below -2.
C27_SpikeNeedsSixOutflows ==
    (fn = "detect_spikes" /\ inp.df # << >>) =>
        (ret # << >> => Len(WindowExpenses(inp.df, inp.lookback_months)) >= 6)

\* the same for windows of at most four outflows, which holds
C27_NoSpikeUpToFour ==
    (fn = "detect_spikes" /\ inp.df # << >>) =>
        (Len(WindowExpenses(inp.df, inp.lookback_months)) <= 4 => ret = << >>)

\* six outflows, one of them ten times the others, is a spike
C27_SixOutflowsSpike ==
    /\ fn = "detect_spikes"
    /\ inp.df # << >>
    /\ Len(WindowExpenses(inp.df, inp.lookback_months)) = 6
    /\ Len(ret) = 1
    /\ ret[1].row.Amount = -40

-----------------------------------------------------------------------------
(* Claims about budgets                                                     *)

\* outflow magnitude of category c in the calendar month of the day today
SpentIn(df, c, today) ==
    LET rows == SelectSeq(df, LAMBDA r : /\ r.Category = c /\ r.Amount < 0
                                        /\ r.Date.y = today.y /\ r.Date.m = today.m)
    IN -SumSeq([i \in 1..Len(rows) |-> rows[i].Amount])

C18_ZeroLimitNeverAlerts ==
    fn \in {"summarize_budget_watch", "dashboard", "transaction_log"} =>
        \A i \in 1..Len(ret.alerts) :
            \A k \in 1..Len(ret.budget_status) :
                ret.budget_status[k].category = ret.alerts[i].category
                    => ret.budget_status[k].limit # 0

-----------------------------------------------------------------------------
(* Claims about forecast_cash_flow                                          *)

\* sum of the amounts of the rows dated from ordinal a to ordinal b
NetBetween(df, a, b) ==
    LET rows == SelectSeq(df, LAMBDA r : Ordinal(r.Date) >= a /\ Ordinal(r.Date) <= b)
    IN SumSeq([i \in 1..Len(rows) |-> rows[i].Amount])

\* mean net per calendar day over the 90 days ending at the latest date, or
\* over the days from the first to the latest date when these are fewer
CalendarDailyNet(df) ==
    LET last == MaxOrdinal(df)
        span == last - MinOrdinal(df) + 1
    IN IF span < 90 THEN Frac(NetBetween(df, MinOrdinal(df), last), span)
       ELSE Frac(NetBetween(df, last - 89, last), 90)

\* C19 as stated: for every horizon H the ending balance is
\* base + daily_net_rate * H - recurring_total * H / 30, base being the sum of
\* all amounts and daily_net_rate the mean daily net over the trailing 90
\* calendar days ending at the latest transaction date, days without
\* transactions counting as 0 (over all data when the ledger spans less).
C19_EndingBalanceCalendarRate ==
    (fn = "forecast_cash_flow" /\ inp.df # << >>) =>
        /\ Len(ret) = Len(inp.horizons)
        /\ \A k \in 1..Len(ret) :
              LET H == inp.horizons[k]
                  base == NetBetween(inp.df, MinOrdinal(inp.df), MaxOrdinal(inp.df))
                  recurring == SumSeq([i \in 1..Len(inp.recurring_expenses) |->
                                  IF inp.recurring_expenses[i].amount = << >> THEN 0
                                  ELSE inp.recurring_expenses[i].amount[1]])
              IN /\ ret[k].horizon_days = H
                 /\ ret[k].ending_balance
                      = RSub(RAdd(Rat(base), RMul(CalendarDailyNet(inp.df), Rat(H))),
                             Frac(recurring * H, 30))

\* the fixed expenses all have an amount, so that their total exists
HasFixedTotal(fixed_expenses) ==
    \A i \in 1..Len(fixed_expenses) : fixed_expenses[i].amount # << >>

\* C29: for the same ledger, fixed-expense total and horizon H,
\* predict_cash_balance and forecast_cash_flow give the same projected ending
\* balance, the empty ledger included.
C29_SameEndingBalance ==
    (fn = "predict_cash_balance" /\ HasFixedTotal(inp.fixed_expenses)) =>
        LET projections == forecast_cash_flow(inp.df, inp.fixed_expenses, <<inp.period_days>>)
        IN /\ ret.status = "ok"
           /\ Len(projections) = 1
           /\ projections[1].ending_balance = ret.projected_balance

\* the same for ledgers whose rows all lie within 90 days of the latest one,
\* which holds
C29_SameWithinNinetyDays ==
    (fn = "predict_cash_balance" /\ HasFixedTotal(inp.fixed_expenses) /\ inp.df # << >>
        /\ MinOrdinal(inp.df) >= MaxOrdinal(inp.df) - 90) =>
        LET projections == forecast_cash_flow(inp.df, inp.fixed_expenses, <<inp.period_days>>)
        IN /\ ret.status = "ok"
           /\ Len(projections) = 1
           /\ projections[1].ending_balance = ret.projected_balance

\* the same for non-empty ledgers, which does not hold either
C29_SameForNonEmptyLedger ==
    (fn = "predict_cash_balance" /\ HasFixedTotal(inp.fixed_expenses) /\ inp.df # << >>) =>
        forecast_cash_flow(inp.df, inp.fixed_expenses, <<inp.period_days>>)[1].ending_balance
            = ret.projected_balance

-----------------------------------------------------------------------------
(* Claims about parse_statement                                             *)

\* index of the column with this very name, 0 if there is none
ColumnNamed(columns, name) ==
    IF \E c \in 1..Len(columns) : columns[c] = name
    THEN CHOOSE c \in 1..Len(columns) : columns[c] = name
    ELSE 0

FirstNamed(columns, a, b) ==
    IF ColumnNamed(columns, a) # 0 THEN ColumnNamed(columns, a) ELSE ColumnNamed(columns, b)

\* what the cells of Cells are worth in cents as they stand, a missing or
\* non-numeric cell being worth 0 ...
PlainCents(cell) ==
    CASE cell = <<"1", "2">> -> 1200
      [] cell = <<"1", "2", ".", "5">> -> 1250
      [] cell = <<"-", "7">> -> -700
      [] OTHER -> 0

\* ... and with "$" and "," stripped and parentheses read as a minus sign
CleanCents(cell) ==
    CASE cell = <<"$", "1", ",", "2", "0", "0", ".", "5", "0">> -> 120050
      [] cell = <<"(", "4", "5", ".", "0", "0", ")">> -> -4500
      [] OTHER -> PlainCents(cell)

-----------------------------------------------------------------------------
(* Claims about the column roles                                            *)

\* the first column, in the header's order, whose lower-cased name contains
\* any of the terms; 0 if there is none
FirstInFileOrder(columns, patterns) ==
    LET hits == {c \in 1..Len(columns) :
                    \E k \in 1..Len(patterns) : Contains(Lower(columns[c]), patterns[k])}
    IN IF hits = {} THEN 0 ELSE CHOOSE c \in hits : \A h \in hits : c <= h

\* C21: for each role infer_column returns the first column, in the file's
\* column order, whose lower-cased name contains any of the role's terms, and
\* None only when no column contains any term.
C21_FirstColumnInFileOrder ==
    fn = "identify_columns" =>
        /\ ret.date_col = FirstInFileOrder(inp, DATE_PATTERNS)
        /\ ret.desc_col = FirstInFileOrder(inp, DESCRIPTION_PATTERNS)
        /\ ret.amount_col = FirstInFileOrder(inp, AMOUNT_PATTERNS)

\* C28: whenever parse_statement resolves both the date role and the
\* description role, the two are different columns of the file.
C28_DateAndDescriptionDiffer ==
    (fn = "identify_columns" /\ ret.status = "resolved") => ret.date_col # ret.desc_col

\* the same for headers in which no single name carries a date term and a
\* description term, which holds
C28_DifferWithoutSharedName ==
    (fn = "identify_columns" /\ ret.status = "resolved"
        /\ FirstInFileOrder(inp, DATE_PATTERNS) # 0
        /\ \A c \in 1..Len(inp) :
              ~(/\ \E k \in 1..Len(DATE_PATTERNS) : Contains(Lower(inp[c]), DATE_PATTERNS[k])
                /\ \E k \in 1..Len(DESCRIPTION_PATTERNS) :
                       Contains(Lower(inp[c]), DESCRIPTION_PATTERNS[k])))
        => ret.date_col # ret.desc_col

-----------------------------------------------------------------------------
(* Claims about process_directory                                           *)

\* a file that cannot be normalized: unsupported type, unreadable, empty, no
\* date or description column, no amount, debit or credit column
CannotNormalize(file) ==
    \/ file.suffix \notin {".csv", ".xls", ".xlsx"}
    \/ ~file.readable
    \/ file.frame.rows = << >>
    \/ \A c \in 1..Len(file.frame.columns) :
          ~Contains(Lower(file.frame.columns[c]), <<"d", "a", "t", "e">>)
    \/ \A c \in 1..Len(file.frame.columns) :
          ~Contains(Lower(file.frame.columns[c]), <<"d", "e", "s", "c", "r", "i", "p", "t", "i", "o", "n">>)
    \/ \A c \in 1..Len(file.frame.columns) :
          /\ ~Contains(Lower(file.frame.columns[c]), <<"a", "m", "o", "u", "n", "t">>)
          /\ ~Contains(Lower(file.frame.columns[c]), <<"d", "e", "b", "i", "t">>)
          /\ ~Contains(Lower(file.frame.columns[c]), <<"c", "r", "e", "d", "i", "t">>)

BatchOver == fn = "process_directory" /\ ret.status # "running"

\* C22: a file that cannot be normalized is skipped and the rows of every
\* other file of the batch are still produced: with the model loaded, once the
\* batch is over every dated row of every other file is among the rows
\* returned.
C22_FileFailureNeverAborts ==
    (BatchOver /\ inp.model = "trained") =>
        \A k \in 1..Len(inp.files) :
            ~CannotNormalize(inp.files[k]) =>
                \A i \in 1..Len(inp.files[k].frame.rows) :
                    inp.files[k].frame.rows[i][1] = ValidDate =>
                        \E r \in ret.categorized :
                            /\ r.Description = inp.files[k].frame.rows[i][2]
                            /\ r.Amount = PlainCents(inp.files[k].frame.rows[i][3])

\* the description column of the layouts: Memo, Description or Details
DescriptionColumn(columns) ==
    IF ColumnNamed(columns, <<"M", "e", "m", "o">>) # 0 THEN ColumnNamed(columns, <<"M", "e", "m", "o">>)
    ELSE FirstNamed(columns, <<"D", "e", "s", "c", "r", "i", "p", "t", "i", "o", "n">>, <<"D", "e", "t", "a", "i", "l", "s">>)

\* C23: a source row whose date cell is missing or unparsable, or whose
\* description cell is missing, does not appear in parse_statement's output:
\* the output has one row for each source row with a resolvable date and a
\* description, and no other.
C23_RowsHaveDateAndDescription ==
    (fn = "parse_statement" /\ ret.status = "ok") =>
        LET desc == DescriptionColumn(inp.columns)
            complete == SelectSeq(inp.rows,
                                  LAMBDA row : row[1] = ValidDate /\ row[desc] # << >>)
        IN /\ \A i \in 1..Len(ret.out) : ret.out[i].Date # << >>
           /\ Len(ret.out) = Len(complete)

-----------------------------------------------------------------------------
(* Claims about categorization                                              *)

\* the category of the first keyword of the table found in the lower-cased
\* description, for the descriptions made of Words
FirstKeywordCategory(description) ==
    LET l == Lower(description)
    IN IF Contains(l, <<"u", "b", "e", "r">>) THEN "Transport"
       ELSE IF Contains(l, <<"r", "e", "n", "t">>) THEN "Rent"
       ELSE IF Contains(l, <<"c", "o", "f", "f", "e", "e">>) THEN "Dining"
       ELSE IF Contains(l, <<"n", "e", "t", "f", "l", "i", "x">>) THEN "Subscriptions"
       ELSE "Uncategorized"

\* C24: without a usable model categorization never fails: the result is the
\* category of the first keyword contained in the lower-cased description,
\* and "Uncategorized" with confidence zero when no keyword matches.
C24_FallbackNeverFails ==
    (fn = "categorize_transaction" /\ inp.model # "trained") =>
        /\ ret.status = "returned"
        /\ ret.category = FirstKeywordCategory(inp.description)
        /\ ret.category = "Uncategorized" => ret.confidence = 0

-----------------------------------------------------------------------------
(* Claims about the net worth snapshots                                     *)

\* C25: there is at most one snapshot per calendar date, every snapshot has
\* net_worth = total_assets - total_liabilities, and a capture on a date that
\* already has a snapshot overwrites its assets, liabilities and net worth
\* with the values of the page instead of adding a row.
C25_OneSnapshotPerDate ==
    [][ /\ \A s, o \in snapshots' : s.date = o.date => s = o
        /\ \A s \in snapshots' : s.net_worth = s.total_assets - s.total_liabilities
        /\ (tab6'.session # 0 /\ \E s \in snapshots : s.date = date_today) =>
              /\ Cardinality(snapshots') = Cardinality(snapshots)
              /\ \E s \in snapshots' :
                    /\ s.date = date_today
                    /\ s.total_assets = cash_on_hand
                    /\ s.total_liabilities = total_liabilities
                    /\ s.net_worth = cash_on_hand - total_liabilities ]_vars

\* C25 witness: a second capture on day 2 has replaced the values of that
\* day's snapshot by different ones, next to the snapshot of day 1.
C25_Witness ==
    /\ tab6.session # 0
    /\ tab6.today = 2
    /\ tab6.existing # << >>
    /\ tab6.existing[1].total_assets # tab6.cash_on_hand
    /\ tab6.existing[1].total_liabilities # tab6.total_liabilities
    /\ Cardinality(snapshots) = 2
    /\ \E s \in snapshots : s.date = 2 /\ s.net_worth = tab6.current_net_worth

-----------------------------------------------------------------------------
(* Claims about what a family user is shown                                 *)

\* C26: what a family user, or an admin previewing as family, is shown
\* depends only on the records marked shared: two databases with the same
\* shared transactions, loans, fixed expenses and budgets give the same
\* displayed values.
C26_FamilySeesSharedOnly ==
    (fn = "pages" /\ ~is_admin(1) /\ Shared(inp.a) = Shared(inp.b)) => ret.a = ret.b

-----------------------------------------------------------------------------
(* Claims about the login page                                              *)

\* the failed attempts of a list that are less than 300 seconds old at time t
RecentFailures(attempts, t) == Cardinality({i \in 1..Len(attempts) : t - attempts[i] < 300})

\* C30: in every session the lock is set, until 60 seconds later, exactly
\* when a failed sign-in brings the failed attempts of the last 300 seconds to
\* five or more; while the lock is active a sign-in is not evaluated, even
\* with correct credentials; a successful sign-in clears the failed attempts
\* and the lock; authenticated becomes true only by a successful check.
C30_LoginLockout ==
    [][\A p \in Sessions :
         LET clicked == fn' = "check_login" /\ inp'.session = p /\ now' > now
             active == lock_until[p] # << >> /\ now' < lock_until[p][1]
             ok == clicked /\ ~active /\ checkpw(inp'.username, inp'.password)
             failed == clicked /\ ~active /\ ~checkpw(inp'.username, inp'.password)
             lock_set == lock_until'[p] # << >> /\ lock_until'[p] # lock_until[p]
         IN /\ lock_set <=> (failed /\ RecentFailures(failed_attempts'[p], now') >= 5)
            /\ lock_set => lock_until'[p] = <<now' + 60>>
            /\ (clicked /\ active) =>
                  /\ ~authenticated'[p]
                  /\ failed_attempts'[p] = failed_attempts[p]
                  /\ lock_until'[p] = lock_until[p]
            /\ ok => /\ authenticated'[p]
                     /\ failed_attempts'[p] = << >>
                     /\ lock_until'[p] = << >>
            /\ (authenticated'[p] /\ ~authenticated[p]) => ok
    ]_vars

\* a session is locked after five failures, and its sign-in with the right
\* password has just been ignored
C30_Witness ==
    \E p \in Sessions :
        /\ fn = "check_login"
        /\ inp.session = p
        /\ checkpw(inp.username, inp.password)
        /\ lock_until[p] # << >>
        /\ now < lock_until[p][1]
        /\ now > lock_until[p][1] - 60
        /\ Len(failed_attempts[p]) >= 5
        /\ ~authenticated[p]

\* a fifth failure that does not lock, the first being 300 seconds old
C30_StaleAttemptPruned ==
    \E p \in Sessions :
        /\ fn = "check_login"
        /\ inp.session = p
        /\ failed_attempts[p] = <<120, 180, 240, 360>>
        /\ lock_until[p] = << >>

====
